---- MODULE Spec2Model ----
(***************************************************************************)
(* Model of the go-kart race simulation of src/components/RaceTrack.tsx    *)
(* (the GoCart component with lap/hit statistics, lines 903-2041, and the  *)
(* Track component that owns the shared position map).                     *)
(*                                                                         *)
(* Numbers.  The program computes in IEEE doubles; the model computes in   *)
(* fixed point on integers:                                                *)
(*   lengths/positions : 1/100 track unit          (45 -> 4500)            *)
(*   velocity          : 1/10000 track unit/frame  (maxSpeed 0.4 -> 4000)  *)
(*   angles, angular velocity : 1/10000 rad        (pi -> 31416)           *)
(*   time              : 1/1000 s                  (3.0 s -> 3000)         *)
(* Products are truncated toward zero.  Distances are compared squared:    *)
(* Math.sqrt is monotone, so sqrt(a) < r iff a < r*r for r >= 0.           *)
(*                                                                         *)
(* React.  Every state variable of a GoCart is a useState cell.  A frame   *)
(* callback reads the values of the last render (st) and queues updates;   *)
(* nxt is the state React commits at the next render: a plain setX(v)      *)
(* replaces the pending value, a functional setX(prev => f(prev)) is       *)
(* applied to the pending value.  The shared Map is an ordinary mutable    *)
(* object and is written at once.                                          *)
(***************************************************************************)
EXTENDS Integers, Sequences, FiniteSets, TLC

\* ------------------------------------------------------------------ bounds
\* Frames explored from the start of the race.
MaxFrames == 30
\* External disturbances explored in one run: keyboard events and frames whose
\* elapsed time differs from the nominal frame period.
MaxInputs == 1
\* Frames and disturbances (takeDamage calls, irregular frames) explored when
\* takeDamage is driven through the function the registration effect exposes.
MaxDamageFrames == 6
MaxDamageInputs == 2
\* Frames and takeDamage calls explored when one cart is struck again and again.
MaxHitFrames == 11
MaxHits == 10
\* Laps counted when lap accounting is explored on its own.
MaxLaps == 2
\* Frames run from a placed AI cart.
MaxAdvanceFrames == 2
MaxStruckFrames == 8
MaxMotionTicks == 2
MaxStrikes == 2
\* Frames of the one-second sprint.
MaxSprintFrames == 60
\* Frames and changes of the held keys when the player steers.
MaxSteerFrames == 30
MaxSteerInputs == 2

\* ------------------------------------------------- scales of the fixed point
PosScale == 100
VelScale == 10000
PI == 31416
HalfPI == 15708
TwoPI == 62832

\* ------------------------------------------------------- program constants
numPoints == 32
trackWidth == 1200
cartRadius == 80
collisionRadius == 150
maxSpeed == 4000
maxTurnSpeed == 800
pauseDuration == 3000
stunDuration == 100
fullHitPoints == 10
rideHeight == 50
aiReachDistance == 300

\* Elapsed time (ms) of a regular frame, and of the irregular ones explored.
NominalDt == 250
IrregularDTs == {0, 2900}
DTs == IrregularDTs \cup {NominalDt}

Carts == {"player", "ai1", "ai2"}
\* useFrame subscribers run in mount order: the JSX order of the three GoCarts.
Roster == <<"player", "ai1", "ai2">>

isPlayer(c) == c = "player"
aiStyle(c) == IF c = "ai1" THEN "aggressive" ELSE IF c = "ai2" THEN "cautious" ELSE "normal"

\* ------------------------------------------------------------------ track
\* createTrackPath with numPoints = 32, radiusX = 45, radiusZ = 30: point i is
\* (cos(a)*45, max(0, sin(2a)*2 + cos(3a)*1.5 + sin(5a)*0.8), sin(a)*30) with
\* a = 2*pi*i/32, rounded to 1/100.
TrackX == <<
      4500,  4414,  4157,  3742,  3182,  2500,  1722,   878,
         0,  -878, -1722, -2500, -3182, -3742, -4157, -4414,
     -4500, -4414, -4157, -3742, -3182, -2500, -1722,  -878,
         0,   878,  1722,  2500,  3182,  3742,  4157,  4414 >>

TrackY == <<
       150,   268,   273,   171,    37,     0,     0,    38,
        80,    51,     0,     0,     0,     0,     0,     0,
         0,     0,    10,   198,   363,   410,   311,   115,
         0,     0,     0,     0,     0,     0,     0,     0 >>

TrackZ == <<
         0,   585,  1148,  1667,  2121,  2494,  2772,  2942,
      3000,  2942,  2772,  2494,  2121,  1667,  1148,   585,
         0,  -585, -1148, -1667, -2121, -2494, -2772, -2942,
     -3000, -2942, -2772, -2494, -2121, -1667, -1148,  -585 >>

\* trackPoints[i], i in 0..numPoints-1 as in the program.
trackPoints(i) == [x |-> TrackX[i + 1], y |-> TrackY[i + 1], z |-> TrackZ[i + 1]]

\* A variant of the roster with the AI carts beside the player across the track, a
\* half-width to either side.
startPositionWideGrid(c) ==
  IF c = "player" THEN [x |-> 4500, y |-> 100, z |-> 0]
  ELSE IF c = "ai1" THEN [x |-> 4500 - (trackWidth \div 2), y |-> 100, z |-> 0]
  ELSE [x |-> 4500 + (trackWidth \div 2), y |-> 100, z |-> 0]

startPosition(c) ==
  IF c = "player" THEN [x |-> 4500, y |-> 100, z |-> 0]
  ELSE IF c = "ai1" THEN [x |-> 4500, y |-> 100, z |-> -495]
  ELSE [x |-> 4500, y |-> 100, z |-> 495]

\* ------------------------------------------------------------- arithmetic
Abs(a) == IF a < 0 THEN -a ELSE a
Min(a, b) == IF a < b THEN a ELSE b
Max(a, b) == IF a > b THEN a ELSE b
\* Division truncating toward zero, b > 0.
TruncDiv(a, b) == IF a >= 0 THEN a \div b ELSE -((-a) \div b)

\* Floor of the square root, by bisection.
RECURSIVE SqrtSearch(_, _, _)
SqrtSearch(n, lo, hi) ==
  IF hi - lo <= 1 THEN lo
  ELSE LET mid == (lo + hi) \div 2
       IN IF mid * mid <= n THEN SqrtSearch(n, mid, hi) ELSE SqrtSearch(n, lo, mid)

ISqrt(n) == SqrtSearch(n, 0, 46341)

\* sin on [0, pi/2], 84 steps of 0.0187 rad, scaled by 10000.
SinTable == <<
         0,   187,   374,   561,   747,   934,  1120,  1305,  1490,  1675,  1859,  2043,
      2225,  2407,  2588,  2768,  2948,  3126,  3303,  3479,  3653,  3827,  3999,  4170,
      4339,  4507,  4673,  4837,  5000,  5161,  5320,  5478,  5633,  5787,  5938,  6088,
      6235,  6380,  6523,  6663,  6802,  6938,  7071,  7202,  7331,  7456,  7580,  7700,
      7818,  7934,  8046,  8156,  8262,  8366,  8467,  8565,  8660,  8752,  8841,  8927,
      9010,  9089,  9166,  9239,  9309,  9375,  9439,  9499,  9556,  9609,  9659,  9706,
      9749,  9789,  9826,  9859,  9888,  9914,  9937,  9956,  9972,  9984,  9993,  9998,
     10000 >>

SinStep == 187

\* sin of a first-quadrant angle, linear between the table's entries.
SinQuarter(a) ==
  LET i == a \div SinStep
      r == a % SinStep
  IN IF r = 0 THEN SinTable[i + 1]
     ELSE SinTable[i + 1] + ((SinTable[i + 2] - SinTable[i + 1]) * r) \div SinStep

\* Math.sin, scaled by 10000.
Sin(h) ==
  LET m == h % TwoPI
  IN IF m <= HalfPI THEN SinQuarter(m)
     ELSE IF m <= PI THEN SinQuarter(PI - m)
     ELSE IF m <= PI + HalfPI THEN -SinQuarter(m - PI)
     ELSE -SinQuarter(TwoPI - m)

\* Math.cos, scaled by 10000.
Cos(h) == Sin(h + HalfPI)

\* atan(i/64), i in 0..64, scaled by 10000.
AtanTable == <<
         0,   156,   312,   468,   624,   780,   935,  1089,  1244,  1397,  1550,  1702,  1853,
      2004,  2154,  2302,  2450,  2596,  2742,  2886,  3029,  3171,  3311,  3450,  3588,  3724,
      3859,  3992,  4124,  4254,  4383,  4511,  4636,  4761,  4883,  5004,  5124,  5242,  5358,
      5473,  5586,  5698,  5808,  5916,  6023,  6128,  6232,  6334,  6435,  6534,  6632,  6728,
      6823,  6917,  7009,  7099,  7188,  7276,  7363,  7448,  7532,  7614,  7695,  7775,  7854 >>

AtanSteps == 64

\* atan(mn/mx) for 0 <= mn <= mx, mx > 0, linear between the table's entries.
AtanRatio(mn, mx) ==
  LET i == (mn * AtanSteps) \div mx
      r == (mn * AtanSteps) % mx
  IN IF r = 0 THEN AtanTable[i + 1]
     ELSE AtanTable[i + 1] + ((AtanTable[i + 2] - AtanTable[i + 1]) * r) \div mx

\* atan2 of a point of the closed first quadrant.
AtanFirst(a, b) ==
  IF a = 0 THEN 0
  ELSE IF b = 0 THEN HalfPI
  ELSE IF a <= b THEN AtanRatio(a, b)
  ELSE HalfPI - AtanRatio(b, a)

\* Math.atan2(a, b): the angle of the vector with sine part a and cosine part b,
\* in (-pi, pi].  (a is an exact difference here, so it is never the negative zero
\* for which Math.atan2 returns -pi.)
Atan2(a, b) ==
  IF a >= 0 THEN (IF b >= 0 THEN AtanFirst(a, b) ELSE PI - AtanFirst(a, -b))
  ELSE (IF b >= 0 THEN -AtanFirst(-a, b) ELSE -(PI - AtanFirst(-a, -b)))

\* Square of the horizontal distance between two points.
Dist2(p, q) == (p.x - q.x) * (p.x - q.x) + (p.z - q.z) * (p.z - q.z)

\* ------------------------------------------------------------ track queries
\* The scan shared by getTrackHeightAt, isPositionValid and resetToTrackCenter:
\* for (i = 0; ...) if (distance < closestDistance) take i.  The first point always
\* replaces the initial Infinity; later points only on a strictly smaller distance.
RECURSIVE closestScan(_, _, _, _)
closestScan(p, i, bestIndex, bestDist) ==
  IF i >= numPoints THEN bestIndex
  ELSE LET d == Dist2(trackPoints(i), p)
       IN IF d < bestDist THEN closestScan(p, i + 1, i, d)
          ELSE closestScan(p, i + 1, bestIndex, bestDist)

closestIndex(p) == closestScan(p, 1, 0, Dist2(trackPoints(0), p))

\* A variant of the next index that is not reduced modulo the number of points.
nextIndexUnreduced(i) == i + 1

nextIndex(i) == (i + 1) % numPoints

getTrackHeightAt(p) == trackPoints(closestIndex(p)).y

\* perpendicular * (trackWidth / 2) at centerline point i, where
\* direction = (next - point).normalize() is normalised in three dimensions and
\* perpendicular = (-direction.z, 0, direction.x).  The length is kept in 1/1000.
boundaryOffset(i) ==
  LET c == trackPoints(i)
      n == trackPoints(nextIndex(i))
      dx == n.x - c.x
      dy == n.y - c.y
      dz == n.z - c.z
      len10 == ISqrt(100 * (dx * dx + dy * dy + dz * dz))
  IN IF len10 = 0 THEN [x |-> 0, z |-> 0]
     ELSE [x |-> TruncDiv((-dz) * (trackWidth \div 2) * 10, len10),
           z |-> TruncDiv(dx * (trackWidth \div 2) * 10, len10)]

boundaryOffsets == [i \in 0..(numPoints - 1) |-> boundaryOffset(i)]

innerPoint(i) ==
  [x |-> trackPoints(i).x - boundaryOffsets[i].x, z |-> trackPoints(i).z - boundaryOffsets[i].z]

outerPoint(i) ==
  [x |-> trackPoints(i).x + boundaryOffsets[i].x, z |-> trackPoints(i).z + boundaryOffsets[i].z]

maxDistanceFromCenter == (trackWidth \div 2) - cartRadius

\* A variant of the boundary check that measures from the centerline point after
\* the nearest one.
isPositionValidAtNextPoint(p) ==
  LET i == nextIndex(closestIndex(p))
  IN /\ Dist2(trackPoints(i), p) <= maxDistanceFromCenter * maxDistanceFromCenter
     /\ Dist2(innerPoint(i), p) > cartRadius * cartRadius
     /\ Dist2(outerPoint(i), p) > cartRadius * cartRadius

\* A variant of the boundary check that accepts every position.
isPositionValidEverywhere(p) == TRUE

isPositionValid(p) ==
  LET i == closestIndex(p)
  IN /\ Dist2(trackPoints(i), p) <= maxDistanceFromCenter * maxDistanceFromCenter
     /\ Dist2(innerPoint(i), p) > cartRadius * cartRadius
     /\ Dist2(outerPoint(i), p) > cartRadius * cartRadius

\* ------------------------------------------------------ recovery and damage
\* A variant of the recovery that snaps the position but keeps the heading.
resetToTrackCenterKeepsHeading(s, p) ==
  LET i == closestIndex(s.position)
      c == trackPoints(i)
  IN [p EXCEPT !.position = [x |-> c.x, y |-> getTrackHeightAt(c) + rideHeight, z |-> c.z],
               !.velocity = 0,
               !.angularVelocity = 0,
               !.currentTrackIndex = i,
               !.isPaused = TRUE,
               !.pauseTimeLeft = pauseDuration,
               !.wallHits = @ + 1]

\* A variant of the recovery that also restores health and checkpoint, as resetToStart does.
resetToTrackCenterRestores(s, p) ==
  [resetToTrackCenterKeepsHeading(s, p) EXCEPT
     !.rotation = Atan2(trackPoints(nextIndex(closestIndex(s.position))).x
                          - trackPoints(closestIndex(s.position)).x,
                        trackPoints(nextIndex(closestIndex(s.position))).z
                          - trackPoints(closestIndex(s.position)).z),
     !.hitPoints = fullHitPoints,
     !.lastCheckpoint = -1]

\* s is the state of the last render (what the closure reads), p the pending state.
resetToTrackCenter(s, p) ==
  LET i == closestIndex(s.position)
      c == trackPoints(i)
      n == trackPoints(nextIndex(i))
  IN [p EXCEPT !.position = [x |-> c.x, y |-> getTrackHeightAt(c) + rideHeight, z |-> c.z],
               !.rotation = Atan2(n.x - c.x, n.z - c.z),
               !.velocity = 0,
               !.angularVelocity = 0,
               !.currentTrackIndex = i,
               !.isPaused = TRUE,
               !.pauseTimeLeft = pauseDuration,
               !.wallHits = @ + 1]

\* A variant of resetToStart without setIsStunned(false) and setStunTimeLeft(0).
resetToStartKeepsStun(c, p) ==
  [p EXCEPT !.position = startPosition(c),
            !.rotation = HalfPI,
            !.velocity = 0,
            !.angularVelocity = 0,
            !.currentTrackIndex = 0,
            !.hitPoints = fullHitPoints,
            !.isPaused = FALSE,
            !.pauseTimeLeft = 0,
            !.lastCheckpoint = -1]

\* A variant of resetToStart that also clears the three counters.
resetToStartClearsCounters(c, p) ==
  [p EXCEPT !.position = startPosition(c),
            !.rotation = HalfPI,
            !.velocity = 0,
            !.angularVelocity = 0,
            !.currentTrackIndex = 0,
            !.hitPoints = fullHitPoints,
            !.isPaused = FALSE,
            !.pauseTimeLeft = 0,
            !.isStunned = FALSE,
            !.stunTimeLeft = 0,
            !.laps = 0,
            !.wallHits = 0,
            !.cartHits = 0,
            !.lastCheckpoint = -1]

\* A variant of resetToStart without setHitPoints(10).
resetToStartKeepsHealth(c, p) ==
  [p EXCEPT !.position = startPosition(c),
            !.rotation = HalfPI,
            !.velocity = 0,
            !.angularVelocity = 0,
            !.currentTrackIndex = 0,
            !.isPaused = FALSE,
            !.pauseTimeLeft = 0,
            !.isStunned = FALSE,
            !.stunTimeLeft = 0,
            !.lastCheckpoint = -1]

resetToStart(c, p) ==
  [p EXCEPT !.position = startPosition(c),
            !.rotation = HalfPI,
            !.velocity = 0,
            !.angularVelocity = 0,
            !.currentTrackIndex = 0,
            !.hitPoints = fullHitPoints,
            !.isPaused = FALSE,
            !.pauseTimeLeft = 0,
            !.isStunned = FALSE,
            !.stunTimeLeft = 0,
            !.lastCheckpoint = -1]

takeDamage(c, s, p) ==
  LET newHitPoints == s.hitPoints - 1
      q == [p EXCEPT !.hitPoints = newHitPoints,
                     !.isStunned = TRUE,
                     !.stunTimeLeft = stunDuration,
                     !.velocity = 0,
                     !.angularVelocity = 0,
                     !.cartHits = @ + 1]
  IN IF newHitPoints <= 0 THEN resetToStart(c, q) ELSE q

\* ------------------------------------------------------- collision coordinator
\* cartRefs of Track: useRef(new Map()).  Nothing in the program calls
\* cartRefs.current.set: the registration effect of GoCart builds { takeDamage } and
\* only logs it.  The set of registered ids is therefore empty.
cartRefs == {}

\* Track.handleCartCollision: pend is the pending state of every cart.
handleCartCollision(targetCartId, rendered, pend) ==
  IF targetCartId \in cartRefs
  THEN [pend EXCEPT ![targetCartId] = takeDamage(targetCartId, rendered[targetCartId], @)]
  ELSE pend

\* A variant of the scan without the otherId !== cartId test.
RECURSIVE collisionScanWithSelf(_, _, _, _)
collisionScanWithSelf(cartId, newPos, map, k) ==
  IF k > Len(map) THEN "none"
  ELSE IF Dist2(newPos, map[k].pos) < collisionRadius * collisionRadius
       THEN map[k].id
       ELSE collisionScanWithSelf(cartId, newPos, map, k + 1)

\* A variant of the scan that compares with <= instead of <.
RECURSIVE collisionScanInclusive(_, _, _, _)
collisionScanInclusive(cartId, newPos, map, k) ==
  IF k > Len(map) THEN "none"
  ELSE IF map[k].id # cartId /\ Dist2(newPos, map[k].pos) <= collisionRadius * collisionRadius
       THEN map[k].id
       ELSE collisionScanInclusive(cartId, newPos, map, k + 1)

\* for (const [otherId, otherPos] of allCartPositions): the id of the first entry,
\* in insertion order, of another cart closer than collisionRadius; "none" if none.
RECURSIVE collisionScan(_, _, _, _)
collisionScan(cartId, newPos, map, k) ==
  IF k > Len(map) THEN "none"
  ELSE IF map[k].id # cartId /\ Dist2(newPos, map[k].pos) < collisionRadius * collisionRadius
       THEN map[k].id
       ELSE collisionScan(cartId, newPos, map, k + 1)

\* A variant of the check that passes over the entries of the carts filed before
\* the cart's own entry, i.e. the ones already updated in this frame.
struckCartAmongLater(cartId, newPos, map) ==
  IF \E k \in 1..Len(map) : map[k].id = cartId
  THEN collisionScan(cartId, newPos, map,
                     1 + CHOOSE k \in 1..Len(map) : map[k].id = cartId)
  ELSE "none"

\* A variant of the check that never reports a cart.
struckCartNever(cartId, newPos, map) == "none"

\* checkCartCollisions returns true iff struckCart is not "none".
struckCart(cartId, newPos, map) == collisionScan(cartId, newPos, map, 1)

checkCartCollisions(cartId, newPos, map) == struckCart(cartId, newPos, map) # "none"

\* A variant of the map write that files the position under the first key present.
mapSetFirstKey(map, cartId, pos) ==
  IF map = <<>> THEN <<[id |-> cartId, pos |-> pos]>>
  ELSE [map EXCEPT ![1].pos = pos]

\* allCartPositions.set(cartId, pos): a Map keeps the insertion order of its keys.
mapSet(map, cartId, pos) ==
  IF \E k \in 1..Len(map) : map[k].id = cartId
  THEN [k \in 1..Len(map) |-> IF map[k].id = cartId THEN [id |-> cartId, pos |-> pos] ELSE map[k]]
  ELSE Append(map, [id |-> cartId, pos |-> pos])

\* ---------------------------------------------------------------- AI steering
lookaheadDistance(style) ==
  IF style = "aggressive" THEN 8 ELSE IF style = "cautious" THEN 12 ELSE 10

speedTarget(style) ==
  IF style = "aggressive" THEN 3500 ELSE IF style = "cautious" THEN 2500 ELSE 3000

turnThreshold(style) ==
  IF style = "aggressive" THEN 1000 ELSE IF style = "cautious" THEN 500 ELSE 800

\* while (angleDiff > Math.PI) angleDiff -= 2 * Math.PI
RECURSIVE normalizeDown(_)
normalizeDown(a) == IF a > PI THEN normalizeDown(a - TwoPI) ELSE a

\* while (angleDiff < -Math.PI) angleDiff += 2 * Math.PI
RECURSIVE normalizeUp(_)
normalizeUp(a) == IF a < -PI THEN normalizeUp(a + TwoPI) ELSE a

normalizeAngle(a) == normalizeUp(normalizeDown(a))

noControls == [forward |-> FALSE, backward |-> FALSE, left |-> FALSE, right |-> FALSE]

\* A variant of the reach test with an inclusive comparison.
aiReachesTargetInclusive(s) ==
  Dist2(trackPoints(s.currentTrackIndex), s.position) <= aiReachDistance * aiReachDistance

\* getAIControls queues setCurrentTrackIndex when the tracked point is reached.
aiReachesTarget(s) ==
  Dist2(trackPoints(s.currentTrackIndex), s.position) < aiReachDistance * aiReachDistance

aiTargetIndex(c, s) ==
  (s.currentTrackIndex + (lookaheadDistance(aiStyle(c)) \div 3)) % numPoints

aiTargetPoint(c, s) == trackPoints(aiTargetIndex(c, s))

aiAngleDiff(c, s) ==
  LET t == aiTargetPoint(c, s)
  IN normalizeAngle(Atan2(t.x - s.position.x, t.z - s.position.z) - s.rotation)

\* A variant of the intent with inclusive comparisons.
getAIControlsInclusive(c, s) ==
  IF isPlayer(c) THEN noControls
  ELSE [forward |-> s.velocity <= speedTarget(aiStyle(c)),
        backward |-> FALSE,
        left |-> aiAngleDiff(c, s) >= turnThreshold(aiStyle(c)),
        right |-> aiAngleDiff(c, s) <= -turnThreshold(aiStyle(c))]

getAIControls(c, s) ==
  IF isPlayer(c) THEN noControls
  ELSE [forward |-> s.velocity < speedTarget(aiStyle(c)),
        backward |-> FALSE,
        left |-> aiAngleDiff(c, s) > turnThreshold(aiStyle(c)),
        right |-> aiAngleDiff(c, s) < -turnThreshold(aiStyle(c))]

\* -------------------------------------------------------------------- state
VARIABLES
  st,                \* cart id -> the useState values of the last render
  nxt,               \* cart id -> the values React commits at the next render
  allCartPositions,  \* the shared Map, as the sequence of its [id, pos] entries
  keys,              \* useKeyboardControls state read by the player's cart
  turn,              \* index in Roster of the next useFrame callback; Len(Roster)+1: render
  delta,             \* elapsed time of the current frame
  frame,             \* number of the current frame
  inputs,            \* external disturbances so far
  sincePause,        \* cart id -> elapsed time of its paused ticks since its last wall recovery
  sinceStun,         \* cart id -> elapsed time of its stunned ticks since its last takeDamage
  ev                 \* what the last step did

vars == <<st, nxt, allCartPositions, keys, turn, delta, frame, inputs, sincePause, sinceStun, ev>>

\* The useState initial values of GoCart.
initialCart(c) ==
  [position |-> startPosition(c),
   rotation |-> HalfPI,
   velocity |-> 0,
   angularVelocity |-> 0,
   currentTrackIndex |-> 0,
   isPaused |-> FALSE,
   pauseTimeLeft |-> 0,
   hitPoints |-> fullHitPoints,
   isStunned |-> FALSE,
   stunTimeLeft |-> 0,
   laps |-> 0,
   wallHits |-> 0,
   cartHits |-> 0,
   lastCheckpoint |-> -1]

origin == [x |-> 0, y |-> 0, z |-> 0]

noEvent(kind, c, pos) == [kind |-> kind, cart |-> c, struck |-> "none", tentative |-> pos]

\* The elapsed time of a frame: the nominal period, or an irregular one, which
\* counts as a disturbance.
frameClock(d, nominal, budget) ==
  /\ d = nominal \/ inputs < budget
  /\ delta' = d
  /\ inputs' = IF d = nominal THEN inputs ELSE inputs + 1

\* The state after the three GoCarts have mounted, before the first frame.
InitWith(d) ==
  /\ st = [c \in Carts |-> initialCart(c)]
  /\ nxt = [c \in Carts |-> initialCart(c)]
  /\ allCartPositions = <<>>
  /\ keys = noControls
  /\ turn = 1
  /\ delta = d
  /\ frame = 1
  /\ inputs = 0
  /\ sincePause = [c \in Carts |-> 0]
  /\ sinceStun = [c \in Carts |-> 0]
  /\ ev = noEvent("init", "none", origin)

Init == InitWith(NominalDt)

\* ------------------------------------------------------------ frame physics
\* acceleration 0.8, deceleration 1.2 and turnAcceleration 0.15 are per second;
\* per millisecond and in the model's units they are 8, 12 and 15/10.
acceleration == 8
deceleration == 12
turnAccelerationTimesTen == 15
frictionPercent == 96
turnFrictionPercent == 90
reverseSpeedPercent == 60
checkpointCount == 4

\* A variant of the acceleration step that tests the backward intent first.
acceleratedVelocityBackwardFirst(v, controls, dt) ==
  IF controls.backward
  THEN Max(-TruncDiv(maxSpeed * reverseSpeedPercent, 100), v - deceleration * dt)
  ELSE IF controls.forward THEN Min(maxSpeed, v + acceleration * dt)
       ELSE IF v > 0 THEN Max(0, v - deceleration * dt)
            ELSE Min(0, v + deceleration * dt)

acceleratedVelocity(v, controls, dt) ==
  IF controls.forward THEN Min(maxSpeed, v + acceleration * dt)
  ELSE IF controls.backward
       THEN Max(-TruncDiv(maxSpeed * reverseSpeedPercent, 100), v - deceleration * dt)
       ELSE IF v > 0 THEN Max(0, v - deceleration * dt)
            ELSE Min(0, v + deceleration * dt)

stepVelocity(v, controls, dt) ==
  TruncDiv(acceleratedVelocity(v, controls, dt) * frictionPercent, 100)

\* A variant of the turning step without the turn friction.
stepAngularVelocityNoFriction(w, newVelocity, controls, dt) ==
  LET effectiveTurnSpeed == TruncDiv(maxTurnSpeed * Abs(newVelocity), maxSpeed)
      turnStep == TruncDiv(turnAccelerationTimesTen * dt, 10)
  IN IF controls.left THEN Min(effectiveTurnSpeed, w + turnStep)
     ELSE IF controls.right THEN Max(-effectiveTurnSpeed, w - turnStep)
     ELSE w

\* A variant of the turning step without the limit of the effective turn speed.
stepAngularVelocityUnlimited(w, newVelocity, controls, dt) ==
  LET turnStep == TruncDiv(turnAccelerationTimesTen * dt, 10)
  IN IF controls.left THEN w + turnStep
     ELSE IF controls.right THEN w - turnStep
     ELSE TruncDiv(w * turnFrictionPercent, 100)

stepAngularVelocity(w, newVelocity, controls, dt) ==
  LET effectiveTurnSpeed == TruncDiv(maxTurnSpeed * Abs(newVelocity), maxSpeed)
      turnStep == TruncDiv(turnAccelerationTimesTen * dt, 10)
  IN IF controls.left THEN Min(effectiveTurnSpeed, w + turnStep)
     ELSE IF controls.right THEN Max(-effectiveTurnSpeed, w - turnStep)
     ELSE TruncDiv(w * turnFrictionPercent, 100)

\* tentativePosition.x += sin(rotation) * velocity, .z += cos(rotation) * velocity
tentativePosition(pos, newRotation, newVelocity) ==
  [pos EXCEPT !.x = @ + TruncDiv(Sin(newRotation) * newVelocity, 10000 * (VelScale \div PosScale)),
              !.z = @ + TruncDiv(Cos(newRotation) * newVelocity, 10000 * (VelScale \div PosScale))]

\* A variant of the pause countdown without the setIsPaused(false).
pauseCountdownKeepsFlag(p, dt) ==
  [p EXCEPT !.pauseTimeLeft = Max(0, p.pauseTimeLeft - dt)]

\* setPauseTimeLeft(prev => ...) with the setIsPaused(false) inside the updater.
pauseCountdown(p, dt) ==
  LET newTime == Max(0, p.pauseTimeLeft - dt)
  IN [p EXCEPT !.pauseTimeLeft = newTime,
               !.isPaused = IF newTime <= 0 THEN FALSE ELSE @]

\* setStunTimeLeft(prev => ...) with the setIsStunned(false) inside the updater.
stunCountdown(p, dt) ==
  LET newTime == Max(0, p.stunTimeLeft - dt)
  IN [p EXCEPT !.stunTimeLeft = newTime,
               !.isStunned = IF newTime <= 0 THEN FALSE ELSE @]

\* const currentCheckpoint = Math.floor(currentTrackIndex / checkpointSize)
checkpointOf(s) == s.currentTrackIndex \div (numPoints \div checkpointCount)

\* A variant of lap accounting that counts a lap on every entry into checkpoint 0.
lapAccountingAnyEntry(s, p) ==
  IF checkpointOf(s) # s.lastCheckpoint
  THEN [p EXCEPT !.laps = IF checkpointOf(s) = 0 THEN @ + 1 ELSE @,
                 !.lastCheckpoint = checkpointOf(s)]
  ELSE p

\* A variant of lap accounting that records a checkpoint only when it moves forward.
lapAccountingForwardOnly(s, p) ==
  IF checkpointOf(s) # s.lastCheckpoint
  THEN [p EXCEPT !.laps = IF checkpointOf(s) = 0 /\ s.lastCheckpoint = 3 THEN @ + 1 ELSE @,
                 !.lastCheckpoint = IF checkpointOf(s) > s.lastCheckpoint
                                       \/ (checkpointOf(s) = 0 /\ s.lastCheckpoint = 3)
                                    THEN checkpointOf(s) ELSE @]
  ELSE p

\* Lap accounting at the end of a frame; s is what the closure reads.
lapAccounting(s, p) ==
  LET checkpointSize == numPoints \div checkpointCount
      currentCheckpoint == s.currentTrackIndex \div checkpointSize
  IN IF currentCheckpoint # s.lastCheckpoint
     THEN [p EXCEPT !.laps = IF currentCheckpoint = 0 /\ s.lastCheckpoint = 3 THEN @ + 1 ELSE @,
                    !.lastCheckpoint = currentCheckpoint]
     ELSE p

controlsOf(c, s) == IF isPlayer(c) THEN keys ELSE getAIControls(c, s)

\* The pending state of cart c after getAIControls has run.
afterControls(c, s, p) ==
  IF ~isPlayer(c) /\ aiReachesTarget(s)
  THEN [p EXCEPT !.currentTrackIndex = (s.currentTrackIndex + 1) % numPoints]
  ELSE p

\* A variant that moves the cart although its check reported a collision.
keptPositionIgnoresCollision(struck, position, tentative) == tentative

\* if (!checkCartCollisions(...)) newPosition = tentativePosition: a cart whose check
\* reports a collision keeps the position of the last render.
keptPosition(struck, position, tentative) ==
  IF struck # "none" THEN position ELSE tentative

\* A variant of the drive in which the wall branch does not return: the recovery is
\* followed by the cart check, the move, the map write and lap accounting.
driveFrameWithoutReturn(c) ==
  LET s == st[c]
      controls == controlsOf(c, s)
      p1 == afterControls(c, s, nxt[c])
      newVelocity == stepVelocity(s.velocity, controls, delta)
      newAngularVelocity == stepAngularVelocity(s.angularVelocity, newVelocity, controls, delta)
      newRotation == s.rotation + newAngularVelocity
      tentative == tentativePosition(s.position, newRotation, newVelocity)
      wall == ~isPositionValid(tentative)
      p2 == IF wall THEN resetToTrackCenter(s, p1) ELSE p1
      struck == struckCart(c, tentative, allCartPositions)
      kept == keptPosition(struck, s.position, tentative)
      newPosition == [kept EXCEPT !.y = getTrackHeightAt(kept) + rideHeight]
      pend == IF struck # "none"
              THEN handleCartCollision(struck, st, [nxt EXCEPT ![c] = p2])
              ELSE [nxt EXCEPT ![c] = p2]
      moved == [pend[c] EXCEPT !.position = newPosition,
                               !.rotation = newRotation,
                               !.velocity = newVelocity,
                               !.angularVelocity = newAngularVelocity]
  IN [pend |-> [pend EXCEPT ![c] = lapAccounting(s, moved)],
      map |-> mapSet(allCartPositions, c, newPosition),
      ev |-> [kind |-> IF wall THEN "wall" ELSE IF struck # "none" THEN "hit" ELSE "move",
              cart |-> c, struck |-> struck, tentative |-> tentative]]

\* The part of useFrame after the pause and stun returns: the pending states, the
\* shared map and the event it leaves.
driveFrame(c) ==
  LET s == st[c]
      controls == controlsOf(c, s)
      p1 == afterControls(c, s, nxt[c])
      newVelocity == stepVelocity(s.velocity, controls, delta)
      newAngularVelocity == stepAngularVelocity(s.angularVelocity, newVelocity, controls, delta)
      newRotation == s.rotation + newAngularVelocity
      tentative == tentativePosition(s.position, newRotation, newVelocity)
  IN IF ~isPositionValid(tentative)
     THEN [pend |-> [nxt EXCEPT ![c] = resetToTrackCenter(s, p1)],
           map |-> allCartPositions,
           ev |-> noEvent("wall", c, tentative)]
     ELSE LET struck == struckCart(c, tentative, allCartPositions)
              kept == keptPosition(struck, s.position, tentative)
              newPosition == [kept EXCEPT !.y = getTrackHeightAt(kept) + rideHeight]
              pend == IF struck # "none"
                      THEN handleCartCollision(struck, st, [nxt EXCEPT ![c] = p1])
                      ELSE [nxt EXCEPT ![c] = p1]
              moved == [pend[c] EXCEPT !.position = newPosition,
                                       !.rotation = newRotation,
                                       !.velocity = newVelocity,
                                       !.angularVelocity = newAngularVelocity]
          IN [pend |-> [pend EXCEPT ![c] = lapAccounting(s, moved)],
              map |-> mapSet(allCartPositions, c, newPosition),
              ev |-> [kind |-> IF struck # "none" THEN "hit" ELSE "move",
                      cart |-> c, struck |-> struck, tentative |-> tentative]]

\* A variant of the callback without the early return of a paused cart.
frameResultIgnoresPause(c) ==
  IF st[c].isStunned
  THEN [pend |-> [nxt EXCEPT ![c] = stunCountdown(@, delta)],
        map |-> allCartPositions,
        ev |-> noEvent("stunned", c, st[c].position)]
  ELSE driveFrame(c)

\* A variant of the callback whose pause branch counts the stun timer down as well.
frameResultCountsBothTimers(c) ==
  IF st[c].isPaused
  THEN [pend |-> [nxt EXCEPT ![c] = IF st[c].isStunned
                                    THEN stunCountdown(pauseCountdown(@, delta), delta)
                                    ELSE pauseCountdown(@, delta)],
        map |-> allCartPositions,
        ev |-> noEvent("paused", c, st[c].position)]
  ELSE IF st[c].isStunned
       THEN [pend |-> [nxt EXCEPT ![c] = stunCountdown(@, delta)],
             map |-> allCartPositions,
             ev |-> noEvent("stunned", c, st[c].position)]
       ELSE driveFrame(c)

\* A variant of the callback in which a paused or stunned cart publishes its
\* position.
frameResultPublishesWhenHeld(c) ==
  IF st[c].isPaused
  THEN [pend |-> [nxt EXCEPT ![c] = pauseCountdown(@, delta)],
        map |-> mapSet(allCartPositions, c, st[c].position),
        ev |-> noEvent("paused", c, st[c].position)]
  ELSE IF st[c].isStunned
       THEN [pend |-> [nxt EXCEPT ![c] = stunCountdown(@, delta)],
             map |-> mapSet(allCartPositions, c, st[c].position),
             ev |-> noEvent("stunned", c, st[c].position)]
       ELSE driveFrame(c)

\* The whole callback: pause countdown, stun countdown, or the drive.
frameResult(c) ==
  IF st[c].isPaused
  THEN [pend |-> [nxt EXCEPT ![c] = pauseCountdown(@, delta)],
        map |-> allCartPositions,
        ev |-> noEvent("paused", c, st[c].position)]
  ELSE IF st[c].isStunned
       THEN [pend |-> [nxt EXCEPT ![c] = stunCountdown(@, delta)],
             map |-> allCartPositions,
             ev |-> noEvent("stunned", c, st[c].position)]
       ELSE driveFrame(c)

\* One call of cart c's useFrame callback.
useFrame(c) ==
  /\ turn <= Len(Roster)
  /\ Roster[turn] = c
  /\ \E r \in {frameResult(c)} :
       /\ nxt' = r.pend
       /\ allCartPositions' = r.map
       /\ ev' = r.ev
       /\ sincePause' = [sincePause EXCEPT ![c] = IF r.ev.kind = "wall" THEN 0
                                                  ELSE IF r.ev.kind = "paused" THEN @ + delta
                                                  ELSE @]
       /\ sinceStun' = [sinceStun EXCEPT ![c] = IF r.ev.kind = "stunned" THEN @ + delta ELSE @]
  /\ turn' = turn + 1
  /\ UNCHANGED <<st, keys, delta, frame, inputs>>

\* React commits the queued updates; the frame clock starts the next frame.
Render(dts, nominal, budget) ==
  /\ turn = Len(Roster) + 1
  /\ st' = nxt
  /\ turn' = 1
  /\ frame' = frame + 1
  /\ \E d \in dts : frameClock(d, nominal, budget)
  /\ ev' = noEvent("render", "none", origin)
  /\ UNCHANGED <<nxt, allCartPositions, keys, sincePause, sinceStun>>

\* The keys whose events are explored (ArrowUp); the other three stay released.
ExploredKeys == {"forward"}

\* handleKeyDown: setKeys(prev => ({ ...prev, [k]: true })), between two frames.
handleKeyDown(k) ==
  /\ turn = 1
  /\ inputs < MaxInputs
  /\ keys' = [keys EXCEPT ![k] = TRUE]
  /\ inputs' = inputs + 1
  /\ ev' = noEvent("key", "player", origin)
  /\ UNCHANGED <<st, nxt, allCartPositions, turn, delta, frame, sincePause, sinceStun>>

\* handleKeyUp: setKeys(prev => ({ ...prev, [k]: false })), between two frames.
handleKeyUp(k) ==
  /\ turn = 1
  /\ inputs < MaxInputs
  /\ keys' = [keys EXCEPT ![k] = FALSE]
  /\ inputs' = inputs + 1
  /\ ev' = noEvent("key", "player", origin)
  /\ UNCHANGED <<st, nxt, allCartPositions, turn, delta, frame, sincePause, sinceStun>>

\* ------------------------------------------------------------ the race
Next ==
  \/ \E c \in Carts : frame <= MaxFrames /\ useFrame(c)
  \/ Render(DTs, NominalDt, MaxInputs)
  \/ \E k \in ExploredKeys : frame <= MaxFrames /\ handleKeyDown(k)
  \/ \E k \in ExploredKeys : frame <= MaxFrames /\ handleKeyUp(k)

Spec == Init /\ [][Next]_vars

\* The race with every frame taking time.  The render loop calls every subscriber in
\* every frame and React commits after it, so the loop never stops: weak fairness.
PositiveDTs == DTs \ {0}

LiveNext ==
  \/ \E c \in Carts : frame <= MaxFrames /\ useFrame(c)
  \/ Render(PositiveDTs, NominalDt, MaxInputs)
  \/ \E k \in ExploredKeys : frame <= MaxFrames /\ handleKeyDown(k)
  \/ \E k \in ExploredKeys : frame <= MaxFrames /\ handleKeyUp(k)

\* A step of the frame loop as seen in turn: a useFrame call or the commit.  It is
\* enabled exactly when LiveNext has such a step.
frameAdvances ==
  /\ (turn <= Len(Roster) /\ frame <= MaxFrames) \/ turn = Len(Roster) + 1
  /\ turn' = IF turn = Len(Roster) + 1 THEN 1 ELSE turn + 1

LiveSpec == Init /\ [][LiveNext]_vars /\ WF_turn(frameAdvances)

ProbeGrid == {[x |-> x, y |-> 0, z |-> z] : x \in {0, 90, 149, 150}, z \in {0, 120}}

ProbeOrders == UNION {[1..n -> Carts] : n \in 0..Len(Roster)}

\* Every map of at most one entry per cart, in every insertion order.
probeMaps ==
  UNION {{[k \in DOMAIN o |-> [id |-> o[k], pos |-> f[k]]] : f \in [DOMAIN o -> ProbeGrid]} :
         o \in {q \in ProbeOrders : \A i, j \in DOMAIN q : i # j => q[i] # q[j]}}

ProbeInit ==
  /\ st = [c \in Carts |-> initialCart(c)]
  /\ nxt = [c \in Carts |-> initialCart(c)]
  /\ allCartPositions \in probeMaps
  /\ keys = noControls
  /\ turn = 1
  /\ delta = NominalDt
  /\ frame = 1
  /\ inputs = 0
  /\ sincePause = [c \in Carts |-> 0]
  /\ sinceStun = [c \in Carts |-> 0]
  /\ ev = noEvent("init", "none", origin)

\* One call checkCartCollisions(newPos) by cart c; ev.struck is the id handed to
\* onCartCollision, "none" when the call returns false.
probeCollision(c, newPos) ==
  /\ ev' = [kind |-> "probe", cart |-> c,
            struck |-> struckCart(c, newPos, allCartPositions), tentative |-> newPos]
  /\ UNCHANGED <<st, nxt, allCartPositions, keys, turn, delta, frame, inputs, sincePause, sinceStun>>

ProbeNext ==
  \E c \in Carts : \E newPos \in {[x |-> x, y |-> 100, z |-> 0] : x \in {0, 90}} :
    probeCollision(c, newPos)

SpecCollision == ProbeInit /\ [][ProbeNext]_vars

\* C4: the collision check reports a cart iff the map holds an entry of another id
\* at horizontal distance below 1.5 (0 counts, exactly 1.5 does not, the caller's
\* own entry never does); the cart it reports is that of the first such entry in
\* insertion order, and it reports none when there is no such entry.
C4_FirstOtherEntryWithinRadius ==
  ev.kind = "probe" =>
    LET matches == {k \in 1..Len(allCartPositions) :
                      /\ allCartPositions[k].id # ev.cart
                      /\ Dist2(ev.tentative, allCartPositions[k].pos)
                           < collisionRadius * collisionRadius}
    IN /\ (ev.struck # "none") <=> (matches # {})
       /\ matches # {} =>
            \E k \in matches : /\ \A j \in matches : k <= j
                               /\ ev.struck = allCartPositions[k].id

\* A check on a map whose first entry is the caller's own at distance 0, whose
\* second is another cart's at exactly 1.5 and whose third is reported.
C4_Witness ==
  /\ ev.kind = "probe"
  /\ Len(allCartPositions) = 3
  /\ allCartPositions[1].id = ev.cart
  /\ Dist2(ev.tentative, allCartPositions[1].pos) = 0
  /\ Dist2(ev.tentative, allCartPositions[2].pos) = collisionRadius * collisionRadius
  /\ ev.struck = allCartPositions[3].id

\* ------------------------------------------------- takeDamage on its own
\* The registration effect of GoCart builds cartControls = { takeDamage }; whoever
\* holds it can call takeDamage of cart c at any point of a frame.  Frames are short
\* here (0.05 s, some 0.04 s), so that a stun of 0.1 s spans several ticks.
DamageDt == 50
ShortDt == 40
DamageDTs == {DamageDt, ShortDt}

\* Calls come early enough for the stun they start to run out within MaxDamageFrames.
callTakeDamage(c) ==
  /\ inputs < MaxDamageInputs
  /\ frame + ((stunDuration + ShortDt - 1) \div ShortDt) <= MaxDamageFrames
  /\ nxt' = [nxt EXCEPT ![c] = takeDamage(c, st[c], @)]
  /\ sinceStun' = [sinceStun EXCEPT ![c] = 0]
  /\ inputs' = inputs + 1
  /\ ev' = noEvent("damage", c, st[c].position)
  /\ UNCHANGED <<st, allCartPositions, keys, turn, delta, frame, sincePause>>

DamageInit == InitWith(DamageDt)

DamageNext ==
  \/ \E c \in Carts : frame <= MaxDamageFrames /\ useFrame(c)
  \/ Render(DamageDTs, DamageDt, MaxDamageInputs)
  \/ \E c \in Carts : callTakeDamage(c)

\* A step of the frame loop as seen in turn, as frameAdvances for the race.
damageFrameAdvances ==
  /\ (turn <= Len(Roster) /\ frame <= MaxDamageFrames) \/ turn = Len(Roster) + 1
  /\ turn' = IF turn = Len(Roster) + 1 THEN 1 ELSE turn + 1

SpecDamage == DamageInit /\ [][DamageNext]_vars /\ WF_turn(damageFrameAdvances)

\* ------------------------------------------- one cart struck again and again
\* takeDamage of one and the same cart c, called before the frame callbacks of a
\* frame run (any number of calls in a frame); every frame takes DamageDt.  The
\* struck cart is the idle player or the first AI cart.
HitTargets == {"player", "ai1"}

repeatTakeDamage(c) ==
  /\ turn = 1
  /\ frame <= MaxHitFrames
  /\ inputs < MaxHits
  /\ \A o \in Carts \ {c} : nxt[o].cartHits = 0
  /\ nxt' = [nxt EXCEPT ![c] = takeDamage(c, st[c], @)]
  /\ sinceStun' = [sinceStun EXCEPT ![c] = 0]
  /\ inputs' = inputs + 1
  /\ ev' = noEvent("damage", c, st[c].position)
  /\ UNCHANGED <<st, allCartPositions, keys, turn, delta, frame, sincePause>>

HitsNext ==
  \/ \E c \in Carts : frame <= MaxHitFrames /\ useFrame(c)
  \/ Render({DamageDt}, DamageDt, 0)
  \/ \E c \in HitTargets : repeatTakeDamage(c)

SpecHits == DamageInit /\ [][HitsNext]_vars

\* ------------------------------------------------- lap accounting on its own
\* The frames of one cart as lap accounting sees them.  The tracked index changes
\* by the AI advance (index + 1, queued by getAIControls in a drive tick), by a wall
\* recovery (the recovery sets it to the nearest centerline index, whichever that
\* is) and stays the same otherwise; React commits after every frame.  ev.seen keeps
\* the checkpoints computed by the last ticks, with the lap count after each;
\* ev.resetQueued: resetToStart has been called since the last commit; ev.awaiting:
\* no tick has detected a checkpoint change since the race start or since the commit
\* of the last resetToStart.
LapSequence == <<0, 1, 2, 3, 0>>
SlipSequence == <<0, 1, 2, 1, 0>>

lastObserved(seen) ==
  IF Len(seen) <= Len(LapSequence) THEN seen
  ELSE SubSeq(seen, Len(seen) - Len(LapSequence) + 1, Len(seen))

LapInit ==
  /\ st = [c \in Carts |-> initialCart(c)]
  /\ nxt = [c \in Carts |-> initialCart(c)]
  /\ allCartPositions = <<>>
  /\ keys = noControls
  /\ turn = 1
  /\ delta = NominalDt
  /\ frame = 1
  /\ inputs = 0
  /\ sincePause = [c \in Carts |-> 0]
  /\ sinceStun = [c \in Carts |-> 0]
  /\ ev = [kind |-> "init", cart |-> "none", struck |-> "none", tentative |-> origin,
           seen |-> <<>>, resetQueued |-> FALSE, awaiting |-> TRUE]

\* A drive tick of cart c that reaches lap accounting, and the commit after it;
\* advances: getAIControls has queued the next index in this tick.
lapTick(c, advances) ==
  /\ st[c].laps < MaxLaps
  /\ advances => ~isPlayer(c)
  /\ ev.resetQueued => ~isPlayer(c)
  /\ \E q \in {lapAccounting(st[c],
                  IF advances
                  THEN [nxt[c] EXCEPT !.currentTrackIndex = (st[c].currentTrackIndex + 1) % numPoints]
                  ELSE nxt[c])} :
       /\ nxt' = [nxt EXCEPT ![c] = q]
       /\ st' = [st EXCEPT ![c] = q]
       /\ ev' = [kind |-> "lap", cart |-> c, struck |-> "none", tentative |-> origin,
                 seen |-> lastObserved(Append(ev.seen,
                            [checkpoint |-> checkpointOf(st[c]), laps |-> q.laps])),
                 resetQueued |-> FALSE,
                 awaiting |-> IF ev.resetQueued THEN TRUE
                              ELSE ev.awaiting /\ checkpointOf(st[c]) = st[c].lastCheckpoint]
  /\ UNCHANGED <<allCartPositions, keys, turn, delta, frame, inputs, sincePause, sinceStun>>

\* A tick of cart c that ends in the wall recovery with nearest index i (no lap
\* accounting in that tick), and the commit after it.
lapRecovery(c, i) ==
  /\ ev.resetQueued => ~isPlayer(c)
  /\ nxt' = [nxt EXCEPT ![c].currentTrackIndex = i]
  /\ st' = nxt'
  /\ ev' = [ev EXCEPT !.kind = "recovery", !.cart = c, !.resetQueued = FALSE,
                      !.awaiting = ev.resetQueued \/ @]
  /\ UNCHANGED <<allCartPositions, keys, turn, delta, frame, inputs, sincePause, sinceStun>>

\* One cart is followed: the player (whose index only recoveries change) or ai2.
LapCarts == {"player", "ai2"}

\* The nearest indices tried for a recovery: the first and the last centerline
\* point of every quarter of the track.
RecoveryIndices ==
  {i \in 0..(numPoints - 1) :
     i % (numPoints \div checkpointCount) \in {0, (numPoints \div checkpointCount) - 1}}

LapNext ==
  \/ \E c \in LapCarts : \E advances \in BOOLEAN :
       (\A o \in Carts \ {c} : st[o] = initialCart(o)) /\ lapTick(c, advances)
  \/ \E c \in LapCarts : \E i \in RecoveryIndices :
       (\A o \in Carts \ {c} : st[o] = initialCart(o)) /\ lapRecovery(c, i)

SpecLaps == LapInit /\ [][LapNext]_vars

\* ------------------------------------------- lap accounting with resetToStart
\* resetToStart of cart c (the last call of a takeDamage that found health 1) in
\* the course of a frame: its updates are queued like any others, and cart c's own
\* callback of that frame, if it comes later, still runs on the last render.  The
\* player's callback is the first of every frame, so it never comes later; an AI
\* cart's callback does when the cart is struck by a cart before it in the order.
lapResetToStart(c) ==
  /\ ~ev.resetQueued
  /\ nxt' = [nxt EXCEPT ![c] = resetToStart(c, @)]
  /\ ev' = [ev EXCEPT !.kind = "reset", !.cart = c, !.resetQueued = TRUE]
  /\ UNCHANGED <<st, allCartPositions, keys, turn, delta, frame, inputs, sincePause, sinceStun>>

\* The commit of a frame in which cart c was reset after its own callback had run.
lapCommit ==
  /\ ev.resetQueued
  /\ st' = nxt
  /\ ev' = [ev EXCEPT !.kind = "commit", !.resetQueued = FALSE, !.awaiting = TRUE]
  /\ UNCHANGED <<nxt, allCartPositions, keys, turn, delta, frame, inputs, sincePause, sinceStun>>

LapResetNext ==
  \/ LapNext
  \/ \E c \in LapCarts :
       (\A o \in Carts \ {c} : st[o] = initialCart(o)) /\ lapResetToStart(c)
  \/ lapCommit

SpecLapReset == LapInit /\ [][LapResetNext]_vars

\* --------------------------------------------------------- the player steers
\* The key combinations the player holds: none, reversing, and driving forward
\* while turning to either side.
SteerKeys ==
  {noControls,
   [forward |-> FALSE, backward |-> TRUE, left |-> FALSE, right |-> FALSE],
   [forward |-> TRUE, backward |-> FALSE, left |-> TRUE, right |-> FALSE],
   [forward |-> TRUE, backward |-> FALSE, left |-> FALSE, right |-> TRUE]}

\* The keydown and keyup events that change the held keys to ks, all between the
\* same two frames; the first change comes before the first frame.
steer(ks) ==
  /\ turn = 1
  /\ inputs < MaxSteerInputs
  /\ inputs = 0 => frame = 1
  /\ keys # ks
  /\ keys' = ks
  /\ inputs' = inputs + 1
  /\ ev' = noEvent("key", "player", origin)
  /\ UNCHANGED <<st, nxt, allCartPositions, turn, delta, frame, sincePause, sinceStun>>

SteerNext ==
  \/ \E c \in Carts : frame <= MaxSteerFrames /\ useFrame(c)
  \/ Render({NominalDt}, NominalDt, 0)
  \/ \E ks \in SteerKeys : frame <= MaxSteerFrames /\ steer(ks)

SpecSteer == Init /\ [][SteerNext]_vars

\* The same race with the frame loop never stopping (weak fairness on the step of
\* the loop as seen in turn).
steerFrameAdvances ==
  /\ (turn <= Len(Roster) /\ frame <= MaxSteerFrames) \/ turn = Len(Roster) + 1
  /\ turn' = IF turn = Len(Roster) + 1 THEN 1 ELSE turn + 1

LiveSteerSpec == Init /\ [][SteerNext]_vars /\ WF_turn(steerFrameAdvances)

\* ------------------------------------------------- the velocity step on its own
\* Lines 1266-1281 as a function of the rendered velocity, the control intent
\* and the frame time, applied to the player's cart for every combination of the
\* four intents, velocities on both sides of 0, at the cap and at the reverse
\* floor, and frame times of 0, 16 and 250 ms.
VelocitySamples == {-2400, -2304, -150, -1, 0, 1, 150, 2000, 3840, 4000}
VelocityDTs == {0, 16, NominalDt}
AllControls == [forward : BOOLEAN, backward : BOOLEAN, left : BOOLEAN, right : BOOLEAN]

VelocityInit ==
  /\ \E v \in VelocitySamples :
       /\ st = [c \in Carts |-> IF isPlayer(c) THEN [initialCart(c) EXCEPT !.velocity = v]
                                ELSE initialCart(c)]
       /\ nxt = st
  /\ allCartPositions = <<>>
  /\ keys \in AllControls
  /\ turn = 1
  /\ delta \in VelocityDTs
  /\ frame = 1
  /\ inputs = 0
  /\ sincePause = [c \in Carts |-> 0]
  /\ sinceStun = [c \in Carts |-> 0]
  /\ ev = [kind |-> "init", cart |-> "none", struck |-> "none", tentative |-> origin,
           beforeFriction |-> 0]

\* The velocity computed by a drive tick of the player; ev.beforeFriction is the
\* value of newVelocity when line 1281 is reached.
velocityStep ==
  /\ turn = 1
  /\ nxt' = [nxt EXCEPT !["player"].velocity = stepVelocity(st["player"].velocity, keys, delta)]
  /\ turn' = turn + 1
  /\ ev' = [kind |-> "velocity", cart |-> "player", struck |-> "none", tentative |-> origin,
            beforeFriction |-> acceleratedVelocity(st["player"].velocity, keys, delta)]
  /\ UNCHANGED <<st, allCartPositions, keys, delta, frame, inputs, sincePause, sinceStun>>

SpecVelocity == VelocityInit /\ [][velocityStep]_vars

\* ------------------------------------------------ velocity and turning together
\* Lines 1266-1297 as a function of the rendered velocity and angular velocity, the
\* controls and the frame time, applied MaxMotionTicks times in a row with the
\* controls and the frame time chosen anew for every tick.  The frame times are 0,
\* the nominal period and 2.9 s.
AngularSamples == {-800, -768, -100, 0, 100, 768, 800}
MotionVelocities == {-2400, -2304, 0, 3840, 4000}
MotionDTs == {0, NominalDt, 2900}

MotionInit ==
  /\ \E v \in MotionVelocities : \E w \in AngularSamples :
       /\ st = [c \in Carts |-> IF isPlayer(c)
                                   THEN [initialCart(c) EXCEPT !.velocity = v, !.angularVelocity = w]
                                   ELSE initialCart(c)]
       /\ nxt = st
  /\ allCartPositions = <<>>
  /\ keys \in AllControls
  /\ turn = 1
  /\ delta \in MotionDTs
  /\ frame = 1
  /\ inputs = 0
  /\ sincePause = [c \in Carts |-> 0]
  /\ sinceStun = [c \in Carts |-> 0]
  /\ ev = noEvent("init", "none", origin)

motionStep ==
  /\ turn = 1
  /\ frame <= MaxMotionTicks
  /\ LET newVelocity == stepVelocity(st["player"].velocity, keys, delta)
         newAngularVelocity == stepAngularVelocity(st["player"].angularVelocity, newVelocity,
                                                   keys, delta)
     IN nxt' = [nxt EXCEPT !["player"].velocity = newVelocity,
                           !["player"].angularVelocity = newAngularVelocity]
  /\ turn' = turn + 1
  /\ ev' = noEvent("motion", "player", origin)
  /\ UNCHANGED <<st, allCartPositions, keys, delta, frame, inputs, sincePause, sinceStun>>

motionCommit ==
  /\ turn = 2
  /\ st' = nxt
  /\ keys' \in AllControls
  /\ delta' \in MotionDTs
  /\ turn' = 1
  /\ frame' = frame + 1
  /\ ev' = noEvent("render", "none", origin)
  /\ UNCHANGED <<nxt, allCartPositions, inputs, sincePause, sinceStun>>

MotionNext == motionStep \/ motionCommit

SpecMotion == MotionInit /\ [][MotionNext]_vars

\* ------------------------------------------------------- one second, forward
\* The race from the start with ArrowUp pressed before the first frame and held:
\* the player stands at centerline point 0, heading pi/2, velocity 0.  The frame
\* time is the same in every frame, 16 or 17 ms: the two values at the model's
\* resolution that bracket 1/60 s.
SprintDTs == {16, 17}

SprintInit == \E d \in SprintDTs : InitWith(d)

SprintNext ==
  \/ \E c \in Carts : frame <= MaxSprintFrames /\ useFrame(c)
  \/ Render({delta}, delta, 0)
  \/ frame = 1 /\ handleKeyDown("forward")

SpecSprint == SprintInit /\ [][SprintNext]_vars

\* ------------------------------------------- the AI angle error on its own
\* getAIControls' angle error as a function of where the target lies and of the
\* heading: ai1 is placed 3 units from its target point in each of the eight
\* compass directions, with headings that are multiples of pi/4 over three turns
\* either way.
TargetOffsets == {[x |-> ox, z |-> oz] : ox, oz \in {-300, 0, 300}} \ {[x |-> 0, z |-> 0]}
HeadingSamples == {k * (HalfPI \div 2) : k \in -12..12}

AngleInit ==
  /\ \E o \in TargetOffsets : \E h \in HeadingSamples :
       /\ st = [c \in Carts |->
                 IF c = "ai1"
                 THEN [initialCart(c) EXCEPT
                         !.position = [x |-> aiTargetPoint(c, initialCart(c)).x + o.x,
                                       y |-> initialCart(c).position.y,
                                       z |-> aiTargetPoint(c, initialCart(c)).z + o.z],
                         !.rotation = h]
                 ELSE initialCart(c)]
       /\ nxt = st
  /\ allCartPositions = <<>>
  /\ keys = noControls
  /\ turn = 1
  /\ delta = NominalDt
  /\ frame = 1
  /\ inputs = 0
  /\ sincePause = [c \in Carts |-> 0]
  /\ sinceStun = [c \in Carts |-> 0]
  /\ ev = [kind |-> "init", cart |-> "none", struck |-> "none", tentative |-> origin,
           angleDiff |-> 0, controls |-> noControls]

\* getAIControls of ai1: ev.angleDiff is angleDiff after the two while loops.
angleStep ==
  /\ turn = 1
  /\ turn' = turn + 1
  /\ ev' = [kind |-> "angle", cart |-> "ai1", struck |-> "none", tentative |-> origin,
            angleDiff |-> aiAngleDiff("ai1", st["ai1"]),
            controls |-> getAIControls("ai1", st["ai1"])]
  /\ UNCHANGED <<st, nxt, allCartPositions, keys, delta, frame, inputs, sincePause, sinceStun>>

SpecAngle == AngleInit /\ [][angleStep]_vars

\* ------------------------------------------------ the AI intent on its own
\* getAIControls of either AI cart as a function of its velocity and of the angle
\* error: the cart is placed 3 units from its target point in a compass direction,
\* with velocities at and next to the two speed targets and headings that put the
\* angle error at, next to and far from the turn thresholds (the target straight
\* ahead in +z has direction 0, so the error is minus the heading there).
AICarts == Carts \ {"player"}
IntentVelocities == {-100, 0, 2499, 2500, 2501, 3499, 3500, 3501, 3840}
IntentHeadings == {h * sgn : h \in {0, 499, 500, 501, 999, 1000, 1001, HalfPI, PI}, sgn \in {-1, 1}}

IntentInit ==
  /\ \E a \in AICarts : \E o \in TargetOffsets : \E h \in IntentHeadings :
     \E v \in IntentVelocities :
       /\ st = [c \in Carts |->
                 IF c = a
                 THEN [initialCart(c) EXCEPT
                         !.position = [x |-> aiTargetPoint(c, initialCart(c)).x + o.x,
                                       y |-> initialCart(c).position.y,
                                       z |-> aiTargetPoint(c, initialCart(c)).z + o.z],
                         !.rotation = h,
                         !.velocity = v]
                 ELSE initialCart(c)]
       /\ nxt = st
       /\ ev = [kind |-> "init", cart |-> a, struck |-> "none", tentative |-> origin,
                angleDiff |-> 0, controls |-> noControls]
  /\ allCartPositions = <<>>
  /\ keys = noControls
  /\ turn = 1
  /\ delta = NominalDt
  /\ frame = 1
  /\ inputs = 0
  /\ sincePause = [c \in Carts |-> 0]
  /\ sinceStun = [c \in Carts |-> 0]

\* getAIControls of the placed cart: ev.controls is the object it returns.
intentStep ==
  /\ turn = 1
  /\ turn' = turn + 1
  /\ ev' = [kind |-> "intent", cart |-> ev.cart, struck |-> "none", tentative |-> origin,
            angleDiff |-> aiAngleDiff(ev.cart, st[ev.cart]),
            controls |-> getAIControls(ev.cart, st[ev.cart])]
  /\ UNCHANGED <<st, nxt, allCartPositions, keys, delta, frame, inputs, sincePause, sinceStun>>

SpecIntent == IntentInit /\ [][intentStep]_vars

\* ------------------------------------------- the AI index advance on its own
\* The frame callbacks run from states in which one AI cart stands at a chosen
\* offset from the centerline point it tracks (at, inside and outside the reach
\* distance of 3), tracking the first, a middle or one of the last two points, and
\* is driving, paused or stunned.
AdvanceIndices == {0, numPoints \div 2, numPoints - 2, numPoints - 1}
AdvanceOffsets ==
  {[x |-> 0, z |-> 0], [x |-> 299, z |-> 0], [x |-> 300, z |-> 0], [x |-> 301, z |-> 0],
   [x |-> 180, z |-> 240], [x |-> -200, z |-> -200], [x |-> 0, z |-> -350],
   [x |-> 505, z |-> 0], [x |-> -505, z |-> 0]}
AdvanceModes == {"drive", "paused", "stunned"}

placedCart(c, i, o, mode) ==
  [initialCart(c) EXCEPT
     !.position = [x |-> trackPoints(i).x + o.x,
                   y |-> getTrackHeightAt(trackPoints(i)) + rideHeight,
                   z |-> trackPoints(i).z + o.z],
     !.currentTrackIndex = i,
     !.lastCheckpoint = i \div (numPoints \div checkpointCount),
     !.isPaused = mode = "paused",
     !.pauseTimeLeft = IF mode = "paused" THEN pauseDuration ELSE 0,
     !.isStunned = mode = "stunned",
     !.stunTimeLeft = IF mode = "stunned" THEN stunDuration ELSE 0]

AdvanceInit ==
  /\ \E a \in AICarts : \E i \in AdvanceIndices : \E o \in AdvanceOffsets :
     \E mode \in AdvanceModes :
       /\ st = [c \in Carts |-> IF c = a THEN placedCart(c, i, o, mode) ELSE initialCart(c)]
       /\ nxt = st
  /\ allCartPositions = <<>>
  /\ keys = noControls
  /\ turn = 1
  /\ delta = NominalDt
  /\ frame = 1
  /\ inputs = 0
  /\ sincePause = [c \in Carts |-> 0]
  /\ sinceStun = [c \in Carts |-> 0]
  /\ ev = noEvent("init", "none", origin)

AdvanceNext ==
  \/ \E c \in Carts : frame <= MaxAdvanceFrames /\ useFrame(c)
  \/ Render({NominalDt}, NominalDt, 0)

SpecAdvance == AdvanceInit /\ [][AdvanceNext]_vars

\* ------------------------------------------------ a cart struck while paused
\* A cart (the player holding ArrowUp, or the first AI cart) stands paused on
\* centerline point 16 as a wall recovery left it, with 0.09 or 0.15 s of the pause
\* remaining and health 10 or 1; or it drives near the edge of the track beside
\* point 0, about to meet the wall (pause remainder 0), the AI cart with checkpoint
\* 3 still on record.  While it is rendered paused
\* its takeDamage may be called, at any point of a frame.  Frames take DamageDt.
PauseRemainders == {0, 90, 150}
StruckCarts == {"player", "ai1"}
StruckHealths == {fullHitPoints, 1}

struckCartPaused(c, left, health) ==
  IF left = 0
  THEN [placedCart(c, 0, [x |-> 490, z |-> 0], "drive") EXCEPT
          !.lastCheckpoint = IF isPlayer(c) THEN 0 ELSE checkpointCount - 1,
          !.hitPoints = health,
          !.cartHits = fullHitPoints - health]
  ELSE [placedCart(c, numPoints \div 2, [x |-> 0, z |-> 0], "paused") EXCEPT
          !.pauseTimeLeft = left,
          !.hitPoints = health,
          !.cartHits = fullHitPoints - health,
          !.wallHits = 1]

StruckInit ==
  /\ \E a \in StruckCarts : \E left \in PauseRemainders : \E health \in StruckHealths :
       /\ st = [c \in Carts |-> IF c = a THEN struckCartPaused(c, left, health)
                                   ELSE initialCart(c)]
       /\ sincePause = [c \in Carts |-> IF c = a /\ left > 0 THEN pauseDuration - left ELSE 0]
  /\ nxt = st
  /\ allCartPositions = <<>>
  /\ keys = [noControls EXCEPT !.forward = TRUE]
  /\ turn = 1
  /\ delta = DamageDt
  /\ frame = 1
  /\ inputs = 0
  /\ sinceStun = [c \in Carts |-> 0]
  /\ ev = noEvent("init", "none", origin)

strikePaused(c) ==
  /\ st[c].isPaused
  /\ inputs < MaxStrikes
  /\ frame <= MaxStruckFrames
  /\ nxt' = [nxt EXCEPT ![c] = takeDamage(c, st[c], @)]
  /\ sinceStun' = [sinceStun EXCEPT ![c] = 0]
  /\ inputs' = inputs + 1
  /\ ev' = noEvent("damage", c, st[c].position)
  /\ UNCHANGED <<st, allCartPositions, keys, turn, delta, frame, sincePause>>

StruckNext ==
  \/ \E c \in Carts : frame <= MaxStruckFrames /\ useFrame(c)
  \/ Render({DamageDt}, DamageDt, 0)
  \/ \E c \in Carts : strikePaused(c)

SpecStruck == StruckInit /\ [][StruckNext]_vars

\* ------------------------------------------------ a wall tick next to another cart
\* The frame callbacks run from a state in which an AI cart stands near the edge
\* of the track or inside it, next to point 0, 8 or 31 which it tracks, with the
\* checkpoint of that point or the one before it on record, and another cart stands
\* 1 or 4 units beside it.  The cart drives, is paused or is stunned.  Every cart
\* has published its position in the frame before.
WallIndices == {0, numPoints \div checkpointCount, numPoints - 1}
WallOffsets == {[x |-> 505, z |-> 0], [x |-> -505, z |-> 0], [x |-> 200, z |-> 0]}
WallNeighbourOffsets == {[x |-> 0, z |-> 100], [x |-> 0, z |-> -100], [x |-> 0, z |-> 400]}

wallCart(c, i, o, recorded, mode) ==
  [placedCart(c, i, o, mode) EXCEPT
     !.lastCheckpoint = IF recorded THEN @ ELSE (@ + checkpointCount - 1) % checkpointCount]

neighbourCart(c, p, d) ==
  [initialCart(c) EXCEPT
     !.position = [x |-> p.x + d.x, y |-> getTrackHeightAt([x |-> p.x + d.x, z |-> p.z + d.z]) + rideHeight,
                   z |-> p.z + d.z],
     !.lastCheckpoint = 0]

publishedPositions(s) == [k \in 1..Len(Roster) |-> [id |-> Roster[k], pos |-> s[Roster[k]].position]]

WallInit ==
  /\ \E a \in AICarts : \E b \in Carts \ {a} : \E i \in WallIndices : \E o \in WallOffsets :
     \E d \in WallNeighbourOffsets : \E recorded \in BOOLEAN : \E mode \in AdvanceModes :
       LET placed == wallCart(a, i, o, recorded, mode)
       IN /\ st = [c \in Carts |-> IF c = a THEN placed
                                   ELSE IF c = b THEN neighbourCart(c, placed.position, d)
                                   ELSE [initialCart(c) EXCEPT !.lastCheckpoint = 0]]
          /\ \A c \in Carts : isPositionValid(st[c].position)
  /\ nxt = st
  /\ allCartPositions = publishedPositions(st)
  /\ keys = noControls
  /\ turn = 1
  /\ delta = NominalDt
  /\ frame = 1
  /\ inputs = 0
  /\ sincePause = [c \in Carts |-> 0]
  /\ sinceStun = [c \in Carts |-> 0]
  /\ ev = noEvent("init", "none", origin)

WallNext ==
  \/ \E c \in Carts : frame <= MaxAdvanceFrames /\ useFrame(c)
  \/ Render({NominalDt}, NominalDt, 0)

SpecWall == WallInit /\ [][WallNext]_vars

\* ------------------------------------------------ the boundary check on its own
\* isPositionValid as a function of the test point.  The points lie across the
\* track at centerline points 0 and 18 (rising segments), 5 and 24 (level
\* segments): at signed distances of up to 6 units, in steps of 0.1, along the
\* horizontal normal of the segment to the next point, and 0 or 1 unit along it.
BoundsIndices == {0, 5, 18, 24}
BoundsAcross == {10 * k : k \in -60..60}
BoundsAlong == {-250, -100, 0, 100, 250}

\* The point at signed distance across along the horizontal normal (-dz, dx) of the
\* segment from centerline point i to the next, and along in its direction.
probePoint(i, across, along) ==
  LET c == trackPoints(i)
      n == trackPoints(nextIndex(i))
      dx == n.x - c.x
      dz == n.z - c.z
      len10 == ISqrt(100 * (dx * dx + dz * dz))
  IN [x |-> c.x + TruncDiv((-dz) * across * 10, len10) + TruncDiv(dx * along * 10, len10),
      y |-> c.y,
      z |-> c.z + TruncDiv(dx * across * 10, len10) + TruncDiv(dz * along * 10, len10)]

BoundsInit ==
  /\ st = [c \in Carts |-> initialCart(c)]
  /\ nxt = [c \in Carts |-> initialCart(c)]
  /\ allCartPositions = <<>>
  /\ keys = noControls
  /\ turn = 1
  /\ delta = NominalDt
  /\ frame = 1
  /\ inputs = 0
  /\ sincePause = [c \in Carts |-> 0]
  /\ sinceStun = [c \in Carts |-> 0]
  /\ \E i \in BoundsIndices : \E across \in BoundsAcross : \E along \in BoundsAlong :
       ev = [kind |-> "init", cart |-> "none", struck |-> "none",
             tentative |-> probePoint(i, across, along), valid |-> FALSE,
             probe |-> [index |-> i, across |-> across, along |-> along]]

\* isPositionValid(x, z) of the chosen point: ev.valid is the value it returns.
boundsStep ==
  /\ turn = 1
  /\ turn' = turn + 1
  /\ ev' = [ev EXCEPT !.kind = "bounds", !.valid = isPositionValid(ev.tentative)]
  /\ UNCHANGED <<st, nxt, allCartPositions, keys, delta, frame, inputs, sincePause, sinceStun>>

SpecBounds == BoundsInit /\ [][boundsStep]_vars

\* C2: a cart's own collision check never changes that cart's health, stun timer,
\* stun flag or cart-hit counter, the cart it reports is never itself, and a cart's
\* health decreases in a step only if that step is another cart's check naming it.
C2_OwnCheckLeavesOwnDamageState ==
  [][/\ \A c \in Carts :
          (ev'.cart = c /\ ev'.kind \in {"hit", "move"}) =>
            /\ nxt'[c].hitPoints = nxt[c].hitPoints
            /\ nxt'[c].stunTimeLeft = nxt[c].stunTimeLeft
            /\ nxt'[c].isStunned = nxt[c].isStunned
            /\ nxt'[c].cartHits = nxt[c].cartHits
     /\ ev'.kind = "hit" => ev'.struck \in Carts \ {ev'.cart}
     /\ \A c \in Carts :
          nxt'[c].hitPoints < nxt[c].hitPoints =>
            ev'.kind = "hit" /\ ev'.struck = c /\ ev'.cart # c]_vars

\* A cart's check has just reported another cart, and the reporting cart's health,
\* stun state and cart-hit counter are those of the last render.
C2_Witness ==
  /\ ev.kind = "hit"
  /\ ev.struck # ev.cart
  /\ nxt[ev.cart].hitPoints = st[ev.cart].hitPoints
  /\ nxt[ev.cart].cartHits = st[ev.cart].cartHits
  /\ ~nxt[ev.cart].isStunned

\* C3: on a tick whose tentative position passes the boundary check and whose
\* collision check reports a collision, the cart's horizontal position stays that of
\* the last render, while velocity, angular velocity and heading take the values
\* computed in this tick.
C3_CollisionKeepsPositionOnly ==
  ev.kind = "hit" =>
    LET c == ev.cart
        s == st[c]
        controls == controlsOf(c, s)
        v == stepVelocity(s.velocity, controls, delta)
        w == stepAngularVelocity(s.angularVelocity, v, controls, delta)
    IN /\ nxt[c].position.x = s.position.x
       /\ nxt[c].position.z = s.position.z
       /\ nxt[c].velocity = v
       /\ nxt[c].angularVelocity = w
       /\ nxt[c].rotation = s.rotation + w

\* A collision tick whose tentative position differed from the kept one and whose
\* velocity and heading differ from those of the last render.
C3_Witness ==
  /\ ev.kind = "hit"
  /\ ev.tentative.x # st[ev.cart].position.x
  /\ ev.tentative.z # st[ev.cart].position.z
  /\ nxt[ev.cart].velocity # st[ev.cart].velocity
  /\ nxt[ev.cart].velocity # 0
  /\ nxt[ev.cart].rotation # st[ev.cart].rotation

C7_PausedTickOnlyCountsDown ==
  [][\A c \in Carts :
       (st[c].isPaused /\ ev'.cart = c /\ ev'.kind \notin {"render", "key"}) =>
         /\ ev'.kind = "paused"
         /\ nxt'[c].pauseTimeLeft = IF nxt[c].pauseTimeLeft > delta
                                    THEN nxt[c].pauseTimeLeft - delta ELSE 0
         /\ nxt'[c] = [nxt[c] EXCEPT !.pauseTimeLeft = nxt'[c].pauseTimeLeft,
                                     !.isPaused = nxt'[c].isPaused]
         /\ allCartPositions' = allCartPositions]_vars

\* The paused player's tick with ArrowUp held has just run.
C7_WitnessPlayer ==
  /\ ev.kind = "paused"
  /\ ev.cart = "player"
  /\ keys.forward
  /\ nxt["player"].velocity = 0
  /\ nxt["player"].pauseTimeLeft < pauseDuration

\* C8: with every dt > 0, a cart paused by a wall recovery keeps the recovery
\* position and heading while it is paused and over the tick that unpauses it; it is
\* paused exactly as long as the dt accumulated over its ticks since the recovery
\* is below 3.0, the flag being cleared by the tick that reaches 3.0; a cart that is
\* neither paused nor stunned runs the drive and processes its controls; and a cart
\* paused early enough for 3.0 seconds of frames to follow is eventually unpaused.
C8_PauseLastsThreeSecondsOfTicks ==
  /\ [][\A c \in Carts :
          /\ st[c].isPaused =>
               st'[c].position = st[c].position /\ st'[c].rotation = st[c].rotation
          /\ nxt[c].isPaused =>
               nxt'[c].position = nxt[c].position /\ nxt'[c].rotation = nxt[c].rotation]_vars
  /\ [](\A c \in Carts :
          /\ nxt[c].isPaused <=> (nxt[c].wallHits > 0 /\ sincePause[c] < 3000)
          /\ nxt[c].isPaused => nxt[c].pauseTimeLeft = 3000 - sincePause[c]
          /\ (ev.cart = c /\ ev.kind \in {"paused", "stunned", "wall", "hit", "move"}) =>
               (ev.kind \in {"wall", "hit", "move"} <=> ~st[c].isPaused /\ ~st[c].isStunned))
  /\ \A c \in Carts :
       (st[c].isPaused /\ frame + (pauseDuration \div NominalDt) <= MaxFrames)
         ~> ~st[c].isPaused

\* A cart drives on with non-zero velocity in the frame after the tick that
\* completed its 3.0 seconds of pause.
C8_Witness ==
  /\ ev.kind = "move"
  /\ st[ev.cart].wallHits = 1
  /\ sincePause[ev.cart] >= 3000
  /\ st[ev.cart].velocity = 0
  /\ nxt[ev.cart].velocity # 0
  /\ nxt[ev.cart].position # st[ev.cart].position

\* ------------------------------------------------------------ stun and damage
\* C9: from a takeDamage call on, a cart that is stunned and not paused changes its
\* position on none of its ticks and processes no controls (each such tick is the
\* stun countdown) until the dt accumulated over its ticks since the call reaches
\* 0.1; the flag is cleared by the tick that takes the timer to 0; and a stunned
\* cart is eventually unstunned.
C9_StunnedCartSkipsItsTicks ==
  /\ [][\A c \in Carts :
          (/\ nxt[c].isStunned /\ ~nxt[c].isPaused
           /\ ev'.cart = c /\ ev'.kind \in {"paused", "stunned", "wall", "hit", "move"}) =>
            /\ ev'.kind = "stunned"
            /\ nxt'[c].position = nxt[c].position
            /\ nxt'[c].isStunned <=> sinceStun'[c] < 100]_vars
  /\ \A c \in Carts : nxt[c].isStunned ~> ~nxt[c].isStunned

\* C10: a takeDamage call on a cart whose health is h > 1 leaves health h - 1, the
\* stun timer at 0.1, the stunned flag set, velocity and angular velocity 0 and the
\* cart-hit counter one higher, and changes nothing else of the cart (position,
\* heading, pause state, laps, wall hits, tracked index, checkpoint).
C10_TakeDamageCostsOneHitPoint ==
  [][\A c \in Carts :
       (ev'.kind = "damage" /\ ev'.cart = c /\ nxt[c].hitPoints > 1) =>
         nxt'[c] = [nxt[c] EXCEPT !.hitPoints = nxt[c].hitPoints - 1,
                                  !.stunTimeLeft = 100,
                                  !.isStunned = TRUE,
                                  !.velocity = 0,
                                  !.angularVelocity = 0,
                                  !.cartHits = nxt[c].cartHits + 1]]_vars

\* C11: of the first ten takeDamage calls on a fresh cart, the tenth and none of the
\* first nine runs resetToStart (the call that resets leaves the cart unstunned, any
\* other leaves it stunned), and after the tenth call health is 10 again.
C11_TenthCallResets ==
  [][\A c \in Carts :
       (ev'.kind = "damage" /\ ev'.cart = c /\ nxt'[c].cartHits <= 10) =>
         /\ ~nxt'[c].isStunned <=> nxt'[c].cartHits = 10
         /\ nxt'[c].cartHits = 10 => nxt'[c].hitPoints = 10]_vars

\* C12: the takeDamage call that finds health 1 runs resetToStart, and right after
\* it the cart's state is: its own start position, heading pi/2, velocity 0, angular
\* velocity 0, health 10, not paused, not stunned, both timers 0, last checkpoint -1.
C12_ResetToStartState ==
  [][\A c \in Carts :
       (ev'.kind = "damage" /\ ev'.cart = c /\ st[c].hitPoints = 1) =>
         /\ nxt'[c].position = (IF c = "player" THEN [x |-> 4500, y |-> 100, z |-> 0]
                                ELSE IF c = "ai1" THEN [x |-> 4500, y |-> 100, z |-> -495]
                                ELSE [x |-> 4500, y |-> 100, z |-> 495])
         /\ nxt'[c].rotation = 15708
         /\ nxt'[c].velocity = 0
         /\ nxt'[c].angularVelocity = 0
         /\ nxt'[c].hitPoints = 10
         /\ ~nxt'[c].isPaused /\ nxt'[c].pauseTimeLeft = 0
         /\ ~nxt'[c].isStunned /\ nxt'[c].stunTimeLeft = 0
         /\ nxt'[c].lastCheckpoint = -1]_vars

\* The tenth hit has just reset the first AI cart, which had left its start
\* position and was rendered stunned by the ninth.
C12_Witness ==
  /\ ev.kind = "damage"
  /\ ev.cart = "ai1"
  /\ st["ai1"].hitPoints = 1
  /\ st["ai1"].isStunned
  /\ st["ai1"].position.x # 4500
  /\ nxt["ai1"].position.x = 4500
  /\ nxt["ai1"].hitPoints = 10

\* C13: the lap counter grows only in a tick whose computed checkpoint is 0 while the
\* recorded last checkpoint is 3, and then by exactly 1; every other tick leaves it
\* alone.  So the observed checkpoints 0,1,2,3,0 add one lap and 0,1,2,1,0 add none.
C13_LapOnlyFromThreeToZero ==
  [][\A c \in Carts :
       (ev'.kind = "lap" /\ ev'.cart = c) =>
         /\ st'[c].laps =
              st[c].laps + (IF st[c].currentTrackIndex \div 8 = 0 /\ st[c].lastCheckpoint = 3
                            THEN 1 ELSE 0)
         /\ LET seen == ev'.seen
                checkpoints == [k \in DOMAIN seen |-> seen[k].checkpoint]
            IN /\ checkpoints = LapSequence => seen[5].laps = seen[1].laps + 1
               /\ checkpoints = SlipSequence => seen[5].laps = seen[1].laps]_vars

\* C13 witness: ai2 has been seen in checkpoints 0,1,2,3,0 and the last tick counted
\* its first lap.
C13_Witness ==
  /\ ev.kind = "lap" /\ ev.cart = "ai2"
  /\ [k \in DOMAIN ev.seen |-> ev.seen[k].checkpoint] = LapSequence
  /\ ev.seen[4].laps = 0
  /\ st["ai2"].laps = 1

\* C14: a tick whose computed checkpoint differs from the recorded one records the
\* computed one, whatever the direction and whether or not a lap was counted; a tick
\* whose computed checkpoint equals the recorded one changes neither record nor laps.
C14_TransitionAlwaysRecorded ==
  [][\A c \in Carts :
       (ev'.kind = "lap" /\ ev'.cart = c) =>
         /\ st'[c].lastCheckpoint = st[c].currentTrackIndex \div 8
         /\ st[c].currentTrackIndex \div 8 = st[c].lastCheckpoint =>
              st'[c].laps = st[c].laps]_vars

\* C14 witness: the player slipped back from checkpoint 2 to checkpoint 1; the tick
\* recorded 1 and counted no lap.
C14_Witness ==
  /\ ev.kind = "lap" /\ ev.cart = "player"
  /\ Len(ev.seen) >= 2
  /\ ev.seen[Len(ev.seen) - 1].checkpoint = 2
  /\ ev.seen[Len(ev.seen)].checkpoint = 1
  /\ ev.seen[Len(ev.seen)].laps = ev.seen[Len(ev.seen) - 1].laps
  /\ st["player"].lastCheckpoint = 1

\* C15: at the race start and after every resetToStart, the first checkpoint change
\* that a tick of the cart detects on a render made since then does not raise the lap
\* counter, whatever the checkpoint before the reset.
C15_FirstTransitionCountsNoLap ==
  [][\A c \in Carts :
       (/\ ev'.kind = "lap" /\ ev'.cart = c
        /\ ev.awaiting /\ ~ev.resetQueued
        /\ st[c].currentTrackIndex \div 8 # st[c].lastCheckpoint) =>
         st'[c].laps = st[c].laps]_vars

\* C16, for the human-controlled cart: in every tick of the player that runs lap
\* accounting, the checkpoint it uses is floor(i / 8) with i the index of the
\* centerline point nearest to the player.
C16_PlayerCheckpointIsNearestQuarter ==
  (turn > 1 /\ ev.cart = "player" /\ ev.kind \in {"move", "hit"}) =>
    st["player"].currentTrackIndex \div 8 = closestIndex(st["player"].position) \div 8

\* C17: the velocity before friction is min(0.4, v + 0.8 dt) when forward is set,
\* also when backward is set with it; else max(-0.24, v - 1.2 dt) when backward is
\* set; else v moved toward 0 by 1.2 dt without crossing 0.  The new velocity is
\* 0.96 times that value in all three cases.  (Units of 1/10000 and ms.)
C17_VelocityStep ==
  ev.kind = "velocity" =>
    LET v == st["player"].velocity
        b == ev.beforeFriction
        n == nxt["player"].velocity
    IN /\ keys.forward =>
            b = (IF v + 8 * delta < 4000 THEN v + 8 * delta ELSE 4000)
       /\ (~keys.forward /\ keys.backward) =>
            b = (IF v - 12 * delta > -2400 THEN v - 12 * delta ELSE -2400)
       /\ (~keys.forward /\ ~keys.backward /\ v > 0) =>
            b = (IF v - 12 * delta > 0 THEN v - 12 * delta ELSE 0)
       /\ (~keys.forward /\ ~keys.backward /\ v <= 0) =>
            b = (IF v + 12 * delta < 0 THEN v + 12 * delta ELSE 0)
       /\ 100 * Abs(n) <= 96 * Abs(b) /\ 96 * Abs(b) < 100 * (Abs(n) + 1)
       /\ n * b >= 0

\* C17 witness: forward and backward are both set at v = 0.2 with a 250 ms frame;
\* the velocity before friction is the cap 0.4 and the new velocity 0.384.
C17_Witness ==
  /\ ev.kind = "velocity"
  /\ keys.forward /\ keys.backward
  /\ st["player"].velocity = 2000 /\ delta = 250
  /\ ev.beforeFriction = 4000
  /\ nxt["player"].velocity = 3840

\* C18: while the player gives no control intent, no tick changes the sign of its
\* velocity or of its angular velocity or increases either magnitude, the angular
\* velocity shrinks by the factor 0.9 per tick (so it converges to 0), and once the
\* keys are released for good the velocity becomes exactly 0 and stays 0.
C18_CoastingStops ==
  /\ [][(turn = 1 /\ turn' = 2 /\ keys = noControls) =>
          LET v == st["player"].velocity
              w == st["player"].angularVelocity
              nv == nxt'["player"].velocity
              nw == nxt'["player"].angularVelocity
          IN /\ v * nv >= 0 /\ (v = 0 => nv = 0) /\ Abs(nv) <= Abs(v)
             /\ w * nw >= 0 /\ (w = 0 => nw = 0) /\ 100 * Abs(nw) <= 90 * Abs(w)]_vars
  /\ (keys = noControls /\ inputs = MaxSteerInputs /\ turn = 1 /\ frame < MaxSteerFrames)
       ~> [](st["player"].velocity = 0)

\* C18 witness: the player has released the keys after driving and turning; it has
\* coasted to velocity 0 away from the start without touching a wall, while its
\* angular velocity is still decaying.
C18_Witness ==
  /\ keys = noControls /\ inputs = MaxSteerInputs
  /\ st["player"].velocity = 0
  /\ st["player"].angularVelocity # 0
  /\ st["player"].wallHits = 0
  /\ st["player"].position.x # 4500

\* C19: the cart at centerline point 0, heading pi/2, velocity 0, with forward held
\* and nothing else, has velocity 0 after exactly 60 ticks of 1/60 s.
C19_SprintEndsAtRest ==
  (frame = 61 /\ turn = 1 /\ keys.forward) => st["player"].velocity = 0

\* C19 witness: 60 ticks have run with forward held; the player was stopped by the
\* wall recovery and is still in its pause.
C19_Witness ==
  /\ frame = 61 /\ turn = 1 /\ keys.forward
  /\ st["player"].velocity = 0
  /\ st["player"].wallHits = 1
  /\ st["player"].isPaused

\* C20: for every target direction and every heading, the angle error left by the
\* AI normalisation loops is greater than -pi and at most pi.
C20_AngleErrorHalfOpen ==
  ev.kind = "angle" => (-PI < ev.angleDiff /\ ev.angleDiff <= PI)

\* C21: the intent of an AI cart has forward iff its velocity is below the target
\* speed of its style, left iff the angle error is above the turn threshold, right
\* iff it is below minus the threshold, and never backward; the pairs are
\* (0.35, 0.1) aggressive, (0.3, 0.08) normal, (0.25, 0.05) cautious.
C21_IntentFromSpeedAndAngle ==
  /\ speedTarget("aggressive") = 3500 /\ turnThreshold("aggressive") = 1000
  /\ speedTarget("normal") = 3000 /\ turnThreshold("normal") = 800
  /\ speedTarget("cautious") = 2500 /\ turnThreshold("cautious") = 500
  /\ ev.kind = "intent" =>
       LET target == IF ev.cart = "ai1" THEN 3500 ELSE 2500
           threshold == IF ev.cart = "ai1" THEN 1000 ELSE 500
       IN /\ ev.controls.forward <=> st[ev.cart].velocity < target
          /\ ev.controls.left <=> ev.angleDiff > threshold
          /\ ev.controls.right <=> ev.angleDiff < -threshold
          /\ ~ev.controls.backward

\* C21 witness: the cautious cart exactly at its target speed 0.25 with an angle
\* error of exactly its threshold 0.05 asks for nothing.
C21_Witness ==
  /\ ev.kind = "intent" /\ ev.cart = "ai2"
  /\ st["ai2"].velocity = 2500
  /\ ev.angleDiff = 500
  /\ ev.controls = noControls

\* C22: a drive tick of an AI cart that does not end in the wall recovery leaves the
\* tracked index at (i + 1) mod 32 if the cart is at horizontal distance below 3 from
\* centerline point i, and at i otherwise; a paused or stunned tick leaves it at i.
C22_IndexAdvancesByOneWithinReach ==
  [][\A c \in Carts \ {"player"} :
       (turn <= 3 /\ Roster[turn] = c /\ turn' = turn + 1) =>
         LET i == st[c].currentTrackIndex
             dx == trackPoints(i).x - st[c].position.x
             dz == trackPoints(i).z - st[c].position.z
         IN /\ ev'.kind \in {"move", "hit"} =>
                 nxt'[c].currentTrackIndex =
                   (IF dx * dx + dz * dz < 300 * 300 THEN (i + 1) % 32 ELSE i)
            /\ ev'.kind \in {"paused", "stunned"} => nxt'[c].currentTrackIndex = i]_vars

\* C22 witness: an AI cart tracking the last point, 2.99 from it, has driven a tick
\* and its index has wrapped to 0.
C22_Witness ==
  \E c \in Carts \ {"player"} :
    /\ ev.kind = "move" /\ ev.cart = c
    /\ st[c].currentTrackIndex = 31
    /\ st[c].position.x = trackPoints(31).x + 299
    /\ nxt[c].currentTrackIndex = 0

\* C23: at the end of every frame, every entry of the shared position map equals
\* the position of the cart it is filed under, also after ticks on which that cart
\* was paused, stunned or recovered to the track centre.
C23_MapEntryIsCurrentPosition ==
  (turn = 1 /\ frame > 1) =>
    \A k \in 1..Len(allCartPositions) :
      allCartPositions[k].pos = st[allCartPositions[k].id].position

\* C24: a cart's tick leaves every entry of the shared map filed under another id as
\* it was, removes none, and adds or replaces at most the one entry under its own
\* id; no other step changes the map.
C24_TickWritesOnlyOwnEntry ==
  [][/\ Len(allCartPositions') >= Len(allCartPositions)
     /\ Len(allCartPositions') <= Len(allCartPositions) + 1
     /\ \A k \in 1..Len(allCartPositions) :
          /\ allCartPositions'[k].id = allCartPositions[k].id
          /\ allCartPositions'[k] # allCartPositions[k] =>
               (turn <= 3 /\ turn' = turn + 1 /\ allCartPositions[k].id = Roster[turn])
     /\ Len(allCartPositions') > Len(allCartPositions) =>
          /\ turn <= 3 /\ turn' = turn + 1
          /\ allCartPositions'[Len(allCartPositions')].id = Roster[turn]
          /\ \A k \in 1..Len(allCartPositions) : allCartPositions[k].id # Roster[turn]]_vars

\* C24 witness: ai1 has just replaced its own entry, the second of three, with a new
\* position; the player's and ai2's entries are in place around it.
C24_Witness ==
  /\ turn = 3 /\ ev.kind = "move" /\ ev.cart = "ai1"
  /\ Len(allCartPositions) = 3
  /\ allCartPositions[1].id = "player"
  /\ allCartPositions[2] = [id |-> "ai1", pos |-> nxt["ai1"].position]
  /\ allCartPositions[3].id = "ai2"
  /\ nxt["ai1"].position # st["ai1"].position

\* C25: while every cart publishes in every frame (no cart has met a wall yet), the
\* collision check of a cart reports the first cart in update order, other than
\* itself, that is within 1.5 of the tentative position, where a cart updated before
\* it counts with the position it published in this frame and a cart updated after
\* it with the position it published in the frame before (none in the first frame).
C25_CheckReadsMapAsItIs ==
  [][\A n \in 1..3 :
       (/\ turn = n /\ turn' = n + 1
        /\ ev'.kind \in {"move", "hit"}
        /\ \A o \in Carts : st[o].wallHits = 0 /\ nxt[o].wallHits = 0) =>
         LET seen(m) == IF m < n THEN nxt[Roster[m]].position ELSE st[Roster[m]].position
             near(m) == /\ m # n
                        /\ m < n \/ frame > 1
                        /\ (seen(m).x - ev'.tentative.x) * (seen(m).x - ev'.tentative.x)
                           + (seen(m).z - ev'.tentative.z) * (seen(m).z - ev'.tentative.z)
                           < 150 * 150
         IN IF \E m \in 1..3 : near(m)
            THEN \E m \in 1..3 : /\ near(m) /\ ev'.struck = Roster[m]
                                 /\ \A l \in 1..(m - 1) : ~near(l)
            ELSE ev'.struck = "none"]_vars

\* C25 witness: ai1's check reports the player because of the position the player
\* published earlier in this same frame; the player's position of the frame before
\* is not within 1.5 of ai1's tentative position.
C25_Witness ==
  /\ turn = 3 /\ ev.kind = "hit" /\ ev.cart = "ai1" /\ ev.struck = "player"
  /\ \A o \in Carts : st[o].wallHits = 0 /\ nxt[o].wallHits = 0
  /\ Dist2(st["player"].position, ev.tentative) >= 150 * 150
  /\ Dist2(nxt["player"].position, ev.tentative) < 150 * 150

\* C27: the boundary check accepts a point iff, with c the nearest centerline point
\* (lowest index on ties) and inner and outer the points 6 units from c on either
\* side along the horizontal perpendicular of the segment from c to the next point,
\* the point is within 5.2 of c and more than 0.8 from inner and from outer.
C27_ValidIffInsideBothBoundaryPoints ==
  ev.kind = "bounds" =>
    LET p == ev.tentative
        d2(i) == (TrackX[i + 1] - p.x) * (TrackX[i + 1] - p.x)
                 + (TrackZ[i + 1] - p.z) * (TrackZ[i + 1] - p.z)
        i == CHOOSE k \in 0..31 : /\ \A j \in 0..31 : d2(k) <= d2(j)
                                  /\ \A j \in 0..(k - 1) : d2(j) > d2(k)
        n == (i + 1) % 32
        dx == TrackX[n + 1] - TrackX[i + 1]
        dz == TrackZ[n + 1] - TrackZ[i + 1]
        len10 == ISqrt(100 * (dx * dx + dz * dz))
        ox == TruncDiv((-dz) * 6000, len10)
        oz == TruncDiv(dx * 6000, len10)
        inner2 == (TrackX[i + 1] - ox - p.x) * (TrackX[i + 1] - ox - p.x)
                  + (TrackZ[i + 1] - oz - p.z) * (TrackZ[i + 1] - oz - p.z)
        outer2 == (TrackX[i + 1] + ox - p.x) * (TrackX[i + 1] + ox - p.x)
                  + (TrackZ[i + 1] + oz - p.z) * (TrackZ[i + 1] + oz - p.z)
    IN ev.valid <=> (d2(i) <= 520 * 520 /\ inner2 > 80 * 80 /\ outer2 > 80 * 80)

\* C28: a test point and its mirror image across the perpendicular axis through
\* the nearest centerline point get the same answer from the boundary check,
\* whenever that centerline point is the nearest one of the mirror image too (as it
\* is on a straight, evenly spaced stretch).
C28_MirrorImageSameAnswer ==
  ev.kind = "bounds" =>
    LET mirror == probePoint(ev.probe.index, ev.probe.across, -ev.probe.along)
    IN (closestIndex(ev.tentative) = ev.probe.index /\ closestIndex(mirror) = ev.probe.index)
         => (ev.valid <=> isPositionValid(mirror))

\* C28 witness: a point 5 units across and 1 unit along the segment at point 5 is
\* accepted; it and its mirror image, 1 unit back, are both nearest to point 5.
C28_Witness ==
  /\ ev.kind = "bounds" /\ ev.valid
  /\ ev.probe = [index |-> 5, across |-> 500, along |-> 100]
  /\ ev.tentative # probePoint(5, 500, -100)
  /\ closestIndex(ev.tentative) = 5 /\ closestIndex(probePoint(5, 500, -100)) = 5

\* C29: in every reachable state the tracked centerline index of every cart, as
\* rendered and as queued, lies in 0..N-1, and so does every index with which the
\* centerline is read for that cart: the tracked point and the look-ahead target of
\* getAIControls, the nearest point and the point after it of isPositionValid (at the
\* rendered and at the last tentative position) and of resetToTrackCenter.
C29_IndicesInRange ==
  LET inRange(i) == i \in 0..(numPoints - 1)
  IN /\ \A c \in Carts :
          /\ inRange(st[c].currentTrackIndex)
          /\ inRange(nxt[c].currentTrackIndex)
          /\ inRange(aiTargetIndex(c, st[c]))
          /\ inRange(closestIndex(st[c].position))
          /\ inRange(nextIndex(closestIndex(st[c].position)))
          /\ inRange(closestIndex(nxt[c].position))
          /\ inRange(nextIndex(closestIndex(nxt[c].position)))
     /\ ev.kind \in {"wall", "hit", "move"} =>
          /\ inRange(closestIndex(ev.tentative))
          /\ inRange(nextIndex(closestIndex(ev.tentative)))

\* C29 witness: an AI cart that tracked the last point and left the track has been
\* put back by resetToTrackCenter; the index queued for it is the nearest point's,
\* the last one, and the point after it is point 0.
C29_Witness ==
  /\ ev.kind = "wall" /\ ev.cart \in AICarts
  /\ st[ev.cart].currentTrackIndex = numPoints - 1
  /\ aiTargetIndex(ev.cart, st[ev.cart]) < numPoints - 1
  /\ nxt[ev.cart].currentTrackIndex = numPoints - 1
  /\ nextIndex(closestIndex(nxt[ev.cart].position)) = 0

\* C30: a tick of a cart that is neither paused nor stunned and whose tentative
\* position fails the boundary check reports no struck cart, changes no other cart's
\* queued state, leaves the shared map as it was and leaves the cart's laps and
\* recorded checkpoint as they were.
C30_WallTickSkipsCheckMapAndLaps ==
  [][\A c \in Carts :
       (/\ turn <= Len(Roster) /\ Roster[turn] = c /\ turn' = turn + 1
        /\ ~st[c].isPaused /\ ~st[c].isStunned
        /\ ~isPositionValid(ev'.tentative)) =>
         /\ ev'.struck = "none"
         /\ \A o \in Carts \ {c} : nxt'[o] = nxt[o]
         /\ allCartPositions' = allCartPositions
         /\ nxt'[c].laps = nxt[c].laps
         /\ nxt'[c].lastCheckpoint = nxt[c].lastCheckpoint]_vars

\* C30 witness: a cart has met the wall on a tick on which another cart's entry lay
\* within the collision radius of its tentative position and the checkpoint of its
\* tracked index differed from the recorded one: no cart is reported, the entry of
\* the cart is still the position it had published and the record is unchanged.
C30_Witness ==
  /\ ev.kind = "wall" /\ ev.struck = "none"
  /\ ~isPositionValid(ev.tentative)
  /\ struckCart(ev.cart, ev.tentative, allCartPositions) # "none"
  /\ checkpointOf(st[ev.cart]) # st[ev.cart].lastCheckpoint
  /\ checkpointOf(st[ev.cart]) = 0 /\ st[ev.cart].lastCheckpoint = 3
  /\ nxt[ev.cart].lastCheckpoint = 3 /\ nxt[ev.cart].laps = st[ev.cart].laps
  /\ \E k \in 1..Len(allCartPositions) :
       /\ allCartPositions[k].id = ev.cart
       /\ allCartPositions[k].pos = st[ev.cart].position

\* C31: in every state, the health of every cart, as rendered and as queued by the
\* calls made since the render, is an integer from 1 to 10; health 0 is never seen.
C31_HealthBetweenOneAndTen ==
  \A c \in Carts : st[c].hitPoints \in 1..10 /\ nxt[c].hitPoints \in 1..10

\* C31 witness: a cart rendered with health 10 after its tenth hit, which found
\* health 1.
C31_Witness ==
  /\ ev.kind = "render"
  /\ \E c \in Carts : st[c].cartHits = 10 /\ st[c].hitPoints = 10 /\ ~st[c].isStunned

\* C32: when takeDamage has been called twice on a cart since the last render (its
\* cart-hit counter is queued two higher than rendered) and its rendered health is
\* above 2, the health queued for it is the rendered health minus 2.
C32_TwoHitsCostTwoHitPoints ==
  \A c \in Carts :
    (nxt[c].cartHits = st[c].cartHits + 2 /\ st[c].hitPoints > 2) =>
      nxt[c].hitPoints = st[c].hitPoints - 2

C34_PositionsWithinBounds ==
  \A c \in Carts : isPositionValid(st[c].position) /\ isPositionValid(nxt[c].position)

\* C34 witness: a cart that met the wall, was put on the centerline and was then
\* struck at health 1 is rendered on its start position, while another cart has
\* driven away from its own.
C34_Witness ==
  /\ ev.kind = "render"
  /\ \E c \in Carts :
       /\ st[c].wallHits = 1 /\ sincePause[c] < pauseDuration - 150
       /\ st[c].cartHits = fullHitPoints
       /\ st[c].position = startPosition(c)
       /\ \E o \in Carts \ {c} : st[o].position # startPosition(o)

\* C35: a tick that changes the horizontal position of a cart, other than by a
\* recovery, puts it at a horizontal distance of at least 1.5 from the entry of
\* every other cart in the shared map as the map stood when the tick began.
C35_MoveKeepsClearOfOtherEntries ==
  [][\A c \in Carts :
       (/\ ev'.cart = c /\ ev'.kind \in {"hit", "move"}
        /\ (nxt'[c].position.x # st[c].position.x \/ nxt'[c].position.z # st[c].position.z)) =>
         \A k \in 1..Len(allCartPositions) :
           allCartPositions[k].id # c =>
             (nxt'[c].position.x - allCartPositions[k].pos.x)
                 * (nxt'[c].position.x - allCartPositions[k].pos.x)
               + (nxt'[c].position.z - allCartPositions[k].pos.z)
                   * (nxt'[c].position.z - allCartPositions[k].pos.z)
               >= 150 * 150]_vars

\* C35 witness: a cart has moved while the entry of another cart lay less than 2.5
\* from its new position.
C35_Witness ==
  /\ ev.kind = "move"
  /\ nxt[ev.cart].position.x # st[ev.cart].position.x
  /\ \E k \in 1..Len(allCartPositions) :
       /\ allCartPositions[k].id # ev.cart
       /\ Dist2(nxt[ev.cart].position, allCartPositions[k].pos) < 250 * 250

\* C36: a tick of a cart that is rendered paused or stunned is a countdown: it is
\* no wall recovery (position and wall hits stay), reports no struck cart, leaves
\* the shared map as it was and changes no other cart's queued state.
C36_HeldTickTouchesNothingShared ==
  [][\A c \in Carts :
       (/\ turn <= Len(Roster) /\ Roster[turn] = c /\ turn' = turn + 1
        /\ (st[c].isPaused \/ st[c].isStunned)) =>
         /\ ev'.kind \in {"paused", "stunned"}
         /\ ev'.struck = "none"
         /\ nxt'[c].position = nxt[c].position
         /\ nxt'[c].wallHits = nxt[c].wallHits
         /\ allCartPositions' = allCartPositions
         /\ \A o \in Carts \ {c} : nxt'[o] = nxt[o]]_vars

\* C36 witness: the first AI cart is rendered paused and has counted down in this
\* frame without moving; its entry in the map is as it was published, and the
\* second AI cart, whose tentative position is within 1.5 of that entry, has just
\* reported it.
C36_Witness ==
  /\ ev.kind = "hit" /\ ev.cart = "ai2" /\ ev.struck = "ai1"
  /\ st["ai1"].isPaused
  /\ nxt["ai1"].pauseTimeLeft < st["ai1"].pauseTimeLeft
  /\ nxt["ai1"].position = st["ai1"].position
  /\ \E k \in 1..Len(allCartPositions) :
       /\ allCartPositions[k].id = "ai1"
       /\ allCartPositions[k].pos = st["ai1"].position
       /\ Dist2(ev.tentative, allCartPositions[k].pos) < collisionRadius * collisionRadius

\* C37: no step lowers the lap, wall-hit or cart-hit counter of any cart, rendered
\* or queued; and the takeDamage call that runs resetToStart leaves laps and wall
\* hits as they were and the cart-hit counter at the value its own increment gave.
C37_CountersNeverDecrease ==
  [][\A c \in Carts :
       /\ nxt'[c].laps >= nxt[c].laps /\ st'[c].laps >= st[c].laps
       /\ nxt'[c].wallHits >= nxt[c].wallHits /\ st'[c].wallHits >= st[c].wallHits
       /\ nxt'[c].cartHits >= nxt[c].cartHits /\ st'[c].cartHits >= st[c].cartHits
       /\ (ev'.kind = "damage" /\ ev'.cart = c /\ st[c].hitPoints = 1) =>
            /\ nxt'[c].position = startPosition(c)
            /\ nxt'[c].laps = nxt[c].laps
            /\ nxt'[c].wallHits = nxt[c].wallHits
            /\ nxt'[c].cartHits = nxt[c].cartHits + 1]_vars

\* C37 witness: the first AI cart has counted a lap, met the wall and been struck
\* at health 1; it is rendered on its start position with one lap, one wall hit and
\* ten cart hits.
C37_Witness ==
  /\ st["ai1"].position = startPosition("ai1")
  /\ st["ai1"].hitPoints = fullHitPoints
  /\ st["ai1"].laps = 1
  /\ st["ai1"].wallHits = 1
  /\ st["ai1"].cartHits = fullHitPoints

\* C38: in every state the velocity of every cart, rendered and queued, lies
\* between -0.24 and 0.4 and its angular velocity between -0.08 and 0.08, whatever
\* the frame times and the controls of the ticks so far.
C38_VelocitiesWithinLimits ==
  \A c \in Carts :
    /\ st[c].velocity \in -2400..4000 /\ nxt[c].velocity \in -2400..4000
    /\ st[c].angularVelocity \in -800..800 /\ nxt[c].angularVelocity \in -800..800

\* C38 witness: after a tick of 2.9 s with forward and left, from reverse speed and
\* full right turn, the velocity is 0.384 and the angular velocity 0.0768, the
\* effective turn speed at that velocity.
C38_Witness ==
  /\ ev.kind = "motion" /\ delta = 2900
  /\ keys.forward /\ keys.left
  /\ st["player"].velocity < 0 /\ st["player"].angularVelocity = -800
  /\ nxt["player"].velocity = 3840
  /\ nxt["player"].angularVelocity = 768
====
